---- MODULE Spec2Model ----
(***************************************************************************)
(* ScribeFramework: the sandboxed evaluator (scribe/execution), the route  *)
(* handler (scribe/app.py) and the template parser (scribe/parser).        *)
(*                                                                         *)
(* Script text is a sequence of lexical atoms: words (identifiers,         *)
(* keywords, literals), punctuation, and the three whitespace atoms        *)
(*   "SP"  one blank,  "IND"  four blanks,  "NL"  a line break.            *)
(* Python values are records [kind, id, of]; `of` is only used by an       *)
(* exception object, which carries the kind of the value it wraps.         *)
(***************************************************************************)
EXTENDS Integers, Sequences, FiniteSets, TLC

\* ------------------------------------------------------------------ bounds
MaxBlocks == 2
MaxCallBlocks == 3
MaxIdentBlocks == 2
MaxSegs == 3
MaxTextSegs == 2
MaxPathPieces == 3
MaxVerbs == 2
MaxFiles == 2
MaxRequests == 2
MaxMigrations == 2
MaxRuns == 2
NumReqs == 2

\* ------------------------------------------------------------------ values
Val(k, i) == [kind |-> k, id |-> i, of |-> ""]
PyNone == Val("NoneType", "None")
IntVal(i) == Val("int", i)
ExcObj(v) == [kind |-> "exc", id |-> v.id, of |-> v.kind]
ExcValue(e) == Val(e.of, e.id)
NameErr(n) == Val("!NameError", n)

Truthy(v) == ~(v = PyNone \/ v = IntVal("0") \/ v = Val("bool", "False"))

Max(S) == [T \in {S} |-> CHOOSE x \in T : \A y \in T : y <= x][S]
Min(S) == [T \in {S} |-> CHOOSE x \in T : \A y \in T : x <= y][S]

\* dict.update(u): the entries of u replace those of d
Update(d, u) == u @@ d

\* ------------------------------------------------------- builtins.py
BuiltinClassNames ==
  { "int", "float", "str", "bool", "list", "dict", "tuple", "set",
    "frozenset", "bytes", "bytearray", "type", "range", "enumerate", "zip",
    "reversed", "slice", "filter", "map", "object", "property",
    "staticmethod", "classmethod", "Exception", "ValueError", "TypeError",
    "KeyError", "IndexError", "AttributeError", "RuntimeError",
    "StopIteration" }

BuiltinConstNames == { "None", "True", "False", "Ellipsis", "NotImplemented" }

BuiltinFuncNames ==
  { "isinstance", "issubclass", "hasattr", "getattr", "setattr", "delattr",
    "callable", "len", "sorted", "abs", "min", "max", "sum", "round", "pow",
    "divmod", "all", "any", "repr", "ascii", "chr", "ord", "format", "hash",
    "id", "next", "iter", "vars", "dir", "print" }

SafeBuiltinNames == BuiltinClassNames \cup BuiltinConstNames \cup BuiltinFuncNames

BLOCKED_BUILTINS ==
  { "open", "file", "input", "eval", "exec", "compile", "__import__",
    "reload", "globals", "locals" }

\* the value a name of the interpreter's builtins module stands for
BuiltinValue(n) ==
  IF n \in BuiltinClassNames THEN Val("class", n)
  ELSE IF n = "None" THEN PyNone
  ELSE IF n \in {"True", "False"} THEN Val("bool", n)
  ELSE IF n \in BuiltinConstNames THEN Val("const", n)
  ELSE Val("builtin", n)

get_safe_builtins == [n \in SafeBuiltinNames |-> BuiltinValue(n)]

\* The names of the interpreter's own builtins module that matter here: the
\* safe ones and the blocked ones the interpreter really has ("file" and
\* "reload" do not exist in Python 3).
PyBuiltinNames ==
  SafeBuiltinNames \cup (BLOCKED_BUILTINS \ {"file", "reload"})

\* ------------------------------------------------------- context.py
FrameworkNames == {"db", "session", "request", "g"}

FrameworkObjects == [n \in FrameworkNames |-> Val("object", n)]

SafeImportNames == {"datetime", "json", "re", "math"}

\* ExecutionContext._add_safe_imports
AddSafeImports(namespace) ==
  Update(namespace, [n \in SafeImportNames |-> Val("module", n)])

\* ExecutionContext._build_globals
BuildGlobals(hlp, route_params) ==
  LET n0 == get_safe_builtins
      n1 == Update(n0, FrameworkObjects)
      n2 == Update(n1, hlp)
      n3 == Update(n2, route_params)
  IN  AddSafeImports(n3)

\* ExecutionContext.set_variable
SetVariable(namespace, name, value) == Update(namespace, name :> value)

\* the context of the handler: ExecutionContext(...) and six set_variable calls
HandlerNamespace(hlp, url_params) ==
  LET n0 == BuildGlobals(hlp, url_params)
      n1 == SetVariable(n0, "redirect", Val("function", "redirect"))
      n2 == SetVariable(n1, "abort", Val("function", "abort"))
      n3 == SetVariable(n2, "url_for", Val("function", "url_for"))
      n4 == SetVariable(n3, "jsonify", Val("function", "jsonify"))
      n5 == SetVariable(n4, "csrf", Val("function", "csrf"))
  IN  SetVariable(n5, "flash", Val("function", "flash"))

\* the identifiers of the model that start with an underscore
UnderscoreNames ==
  { "_x", "__builtins__", "__ScribeReturn__", "__scribe_return__",
    "__return__", "__e__", "__import__" }

StartsWithUnderscore(key) == key \in UnderscoreNames

\* get_variables without the test for a leading underscore
GetVariablesKeepPrivate(namespace) ==
  LET keep == { key \in DOMAIN namespace :
                  /\ key \notin SafeBuiltinNames
                  /\ key \notin FrameworkNames
                  /\ namespace[key].kind \notin {"module", "function", "class"} }
  IN  [key \in keep |-> namespace[key]]

\* ExecutionContext.get_variables
GetVariables(namespace) ==
  LET keep == { key \in DOMAIN namespace :
                  /\ key \notin DOMAIN get_safe_builtins
                  /\ key \notin FrameworkNames
                  /\ namespace[key].kind \notin {"module", "function", "class"}
                  /\ ~StartsWithUnderscore(key) }
  IN  [key \in keep |-> namespace[key]]

\* has_return_value that looks at the exit slot instead of __return__
HasReturnValueSlot(namespace) == "__scribe_return__" \in DOMAIN namespace

\* ExecutionContext.has_return_value
HasReturnValue(namespace) == "__return__" \in DOMAIN namespace

\* namespace.get(name), None when the key is missing
DictGet(namespace, name) ==
  IF name \in DOMAIN namespace THEN namespace[name] ELSE PyNone

\* ------------------------------------------------------- script text
IsWs(t) == t \in {"SP", "IND", "NL"}
Punct == {"=", ":", "(", ")", "."}
IsWord(t) == ~IsWs(t) /\ t \notin Punct

\* '\n'.join(lines)
RECURSIVE JoinNL(_)
JoinNL(lines) ==
  IF lines = <<>> THEN <<>>
  ELSE IF Len(lines) = 1 THEN lines[1]
  ELSE lines[1] \o <<"NL">> \o JoinNL(Tail(lines))

\* code.split('\n')
RECURSIVE SplitNL(_)
SplitNL(code) ==
  LET nls == {i \in 1..Len(code) : code[i] = "NL"}
  IN  IF nls = {} THEN <<code>>
      ELSE LET i == Min(nls)
           IN  <<SubSeq(code, 1, i - 1)>> \o SplitNL(SubSeq(code, i + 1, Len(code)))

\* a search for the letters of return that does not look at what stands
\* before and after them
AtReturnInsideWord(code, i) == code[i] = "return"

\* \breturn\b matches at atom i
AtReturn(code, i) ==
  /\ code[i] = "return"
  /\ (i = 1 \/ ~IsWord(code[i - 1]))
  /\ (i = Len(code) \/ ~IsWord(code[i + 1]))

\* re.search(r'\breturn\b', code)
HasReturn(code) == \E i \in 1..Len(code) : AtReturn(code, i)

\* last index of the whitespace run that starts right after atom i
WsEnd(code, i) ==
  Max({m \in i..Len(code) : \A k \in (i + 1)..m : IsWs(code[k])})

\* last index of the line that holds atom p
LineEnd(code, p) ==
  Max({e \in p..Len(code) : \A k \in p..e : code[k] # "NL"})

RaiseOpen == <<"raise", "SP", "__ScribeReturn__", "(">>

\* r'\breturn\s+(.+)$' at atom i: the start of group 1, the largest position
\* that leaves \s+ at least one atom and gives .+ an atom that is no line break
Sub1Start(code, i) ==
  {p \in (i + 2)..Min({WsEnd(code, i) + 1, Len(code)}) : code[p] # "NL"}

\* re.sub(r'\breturn\s+(.+)$', r'raise __ScribeReturn__(\1)', code, flags=re.MULTILINE)
RECURSIVE Sub1From(_, _)
Sub1From(code, i) ==
  IF i > Len(code) THEN <<>>
  ELSE IF AtReturn(code, i) /\ Sub1Start(code, i) # {}
       THEN LET p == Max(Sub1Start(code, i))
                e == LineEnd(code, p)
            IN  RaiseOpen \o SubSeq(code, p, e) \o <<")">> \o Sub1From(code, e + 1)
       ELSE <<code[i]>> \o Sub1From(code, i + 1)

\* r'\breturn\s*$' at atom i: the end of \s*, the largest position that is
\* the end of the text or stands before a line break
Sub2End(code, i) ==
  {q \in i..WsEnd(code, i) : q = Len(code) \/ code[q + 1] = "NL"}

\* re.sub(r'\breturn\s*$', r'raise __ScribeReturn__(None)', code, flags=re.MULTILINE)
RECURSIVE Sub2From(_, _)
Sub2From(code, i) ==
  IF i > Len(code) THEN <<>>
  ELSE IF AtReturn(code, i) /\ Sub2End(code, i) # {}
       THEN RaiseOpen \o <<"None", ")">> \o Sub2From(code, Max(Sub2End(code, i)) + 1)
       ELSE <<code[i]>> \o Sub2From(code, i + 1)

\* the two re.sub calls of execute
TransformReturns(code) == Sub2From(Sub1From(code, 1), 1)

IndentLine(line) ==
  IF \E k \in 1..Len(line) : ~IsWs(line[k]) THEN <<"IND">> \o line ELSE line

\* ExecutionContext._indent_code(code, 4)
IndentCode(code) ==
  LET lines == SplitNL(code)
  IN  JoinNL([k \in 1..Len(lines) |-> IndentLine(lines[k])])

\* the f-string that wraps the transformed code
WrapCode(transformed) ==
  <<"NL", "try", ":", "NL">> \o IndentCode(transformed) \o
  <<"NL", "IND", "__scribe_return__", "SP", "=", "SP", "None", "NL",
    "except", "SP", "__ScribeReturn__", "SP", "as", "SP", "__e__", ":", "NL",
    "IND", "__scribe_return__", "SP", "=", "SP", "__e__", ".", "value", "NL">>

\* ------------------------------------------------------- compiling
\* What exec(code, namespace, namespace) makes of the text: one record per
\* non-blank line, with its indentation depth and its statement.
Keywords == {"return", "if", "try", "except", "pass", "raise", "as", "def",
             "None", "True", "False"}
Literals == {"0", "1", "2", "403", "404"}
IsIdent(t) == IsWord(t) /\ t \notin Keywords /\ t \notin Literals
IsExprTok(t) == IsIdent(t) \/ t \in Literals \/ t \in {"None", "True", "False"}

Stmt(ind, kind, n, e, x) == [ind |-> ind, kind |-> kind, n |-> n, e |-> e, x |-> x]

IsBlank(line) == \A k \in 1..Len(line) : IsWs(line[k])

NoWs(t) == ~IsWs(t)

\* the statement of a line whose indentation has been taken off
Classify(ind, b) ==
  LET n == Len(b)
  IN  IF n = 3 /\ IsIdent(b[1]) /\ b[2] = "=" /\ IsExprTok(b[3])
        THEN Stmt(ind, "assign", b[1], b[3], "")
      ELSE IF n = 5 /\ IsIdent(b[1]) /\ b[2] = "=" /\ IsIdent(b[3])
                    /\ b[4] = "." /\ IsIdent(b[5])
        THEN Stmt(ind, "assign", b[1], b[3], b[5])
      ELSE IF n = 3 /\ b[1] = "if" /\ IsExprTok(b[2]) /\ b[3] = ":"
        THEN Stmt(ind, "if", b[2], "", "")
      ELSE IF b = <<"try", ":">>
        THEN Stmt(ind, "try", "", "", "")
      ELSE IF n = 3 /\ b[1] = "except" /\ IsIdent(b[2]) /\ b[3] = ":"
        THEN Stmt(ind, "except", b[2], "", "")
      ELSE IF n = 5 /\ b[1] = "except" /\ IsIdent(b[2]) /\ b[3] = "as"
                    /\ IsIdent(b[4]) /\ b[5] = ":"
        THEN Stmt(ind, "except", b[2], b[4], "")
      ELSE IF b = <<"pass">>
        THEN Stmt(ind, "pass", "", "", "")
      ELSE IF n = 5 /\ b[1] = "def" /\ IsIdent(b[2]) /\ b[3] = "(" /\ b[4] = ")"
                    /\ b[5] = ":"
        THEN Stmt(ind, "def", b[2], "", "")
      ELSE IF n = 5 /\ IsIdent(b[1]) /\ b[2] = "=" /\ IsIdent(b[3])
                    /\ b[4] = "(" /\ b[5] = ")"
        THEN Stmt(ind, "call", b[1], b[3], "")
      ELSE IF n = 3 /\ IsIdent(b[1]) /\ b[2] = "(" /\ b[3] = ")"
        THEN Stmt(ind, "call", "", b[1], "")
      ELSE IF n = 4 /\ IsIdent(b[1]) /\ b[2] = "(" /\ IsExprTok(b[3]) /\ b[4] = ")"
        THEN Stmt(ind, "call", "", b[1], b[3])
      ELSE IF n >= 4 /\ b[1] = "raise" /\ IsIdent(b[2]) /\ b[3] = "(" /\ b[n] = ")"
        THEN LET args == SubSeq(b, 4, n - 1)
             IN  IF args = <<>> THEN Stmt(ind, "raise", b[2], "", "empty")
                 ELSE IF Len(args) = 1 /\ IsExprTok(args[1])
                   THEN Stmt(ind, "raise", b[2], args[1], "pos")
                 ELSE IF Len(args) = 3 /\ IsIdent(args[1]) /\ args[2] = "="
                                       /\ IsExprTok(args[3])
                   THEN Stmt(ind, "raise", b[2], args[3], args[1])
                 ELSE Stmt(ind, "bad", "", "", "")
      ELSE Stmt(ind, "bad", "", "", "")

\* the tokens of a line: word atoms that touch are one word
RECURSIVE Glue(_)
Glue(line) ==
  IF Len(line) < 2 THEN line
  ELSE IF IsWord(line[1]) /\ IsWord(line[2])
    THEN Glue(<<line[1] \o line[2]>> \o SubSeq(line, 3, Len(line)))
  ELSE <<line[1]>> \o Glue(Tail(line))

ParseLine(line) ==
  LET lead == Max({k \in 0..Len(line) : \A j \in 1..k : line[j] = "IND"})
      rest == SubSeq(line, lead + 1, Len(line))
  IN  IF rest # <<>> /\ IsWs(rest[1])
      THEN Stmt(lead, "bad", "", "", "")
      ELSE Classify(lead, SelectSeq(Glue(rest), NoWs))

ParseProgram(code) ==
  LET lines == SelectSeq(SplitNL(code), LAMBDA l : ~IsBlank(l))
  IN  [k \in 1..Len(lines) |-> ParseLine(lines[k])]

IsHeader(s) == s.kind \in {"if", "try", "except", "def"}

\* first line after i that is not deeper than depth d (Len + 1 when none)
NextAtMost(prog, i, d) ==
  Min({k \in (i + 1)..(Len(prog) + 1) : k = Len(prog) + 1 \/ prog[k].ind <= d})

\* last line before i that is not deeper than depth d (0 when none)
PrevAtMost(prog, i, d) ==
  Max({k \in 0..(i - 1) : k = 0 \/ prog[k].ind <= d})

\* the text compiles: statements are known and the blocks are well formed
WellFormed(prog) ==
  \A i \in 1..Len(prog) :
    /\ prog[i].kind # "bad"
    /\ IF i = 1 THEN prog[i].ind = 0
       ELSE IF IsHeader(prog[i - 1]) THEN prog[i].ind = prog[i - 1].ind + 1
       ELSE prog[i].ind <= prog[i - 1].ind
    /\ IsHeader(prog[i]) => i < Len(prog)
    /\ prog[i].kind = "try" =>
         LET k == NextAtMost(prog, i, prog[i].ind)
         IN  k <= Len(prog) /\ prog[k].ind = prog[i].ind /\ prog[k].kind = "except"
    /\ prog[i].kind = "except" =>
         LET k == PrevAtMost(prog, i, prog[i].ind)
         IN  k >= 1 /\ prog[k].ind = prog[i].ind /\ prog[k].kind = "try"

\* ------------------------------------------------------- running
\* a name of the running script: the namespace, then the builtins module that
\* exec() has put under __builtins__
Lookup(namespace, name) ==
  IF name \in DOMAIN namespace THEN namespace[name]
  ELSE IF name \in PyBuiltinNames THEN BuiltinValue(name)
  ELSE NameErr(name)

EvalTok(namespace, e) ==
  IF e \in Literals THEN IntVal(e)
  ELSE IF e \in {"None", "True", "False"} THEN BuiltinValue(e)
  ELSE Lookup(namespace, e)

IsErr(v) == v.kind = "!NameError"

\* the header of the block that holds line i (0 at top level)
Header(prog, i) == Max({k \in 0..(i - 1) : k = 0 \/ prog[k].ind < prog[i].ind})

\* except CLS catches the exception
Catches(cls, exc) ==
  \/ cls = "Exception"
  \/ cls = "__ScribeReturn__" /\ exc.type = "ScribeReturn"

\* the except clause that takes an exception raised at line i (0: none)
RECURSIVE FindHandler(_, _, _)
FindHandler(prog, i, exc) ==
  LET h == Header(prog, i)
  IN  IF h = 0 THEN 0
      ELSE IF prog[h].kind = "try"
           THEN LET x == NextAtMost(prog, i, prog[h].ind)
                IN  IF Catches(prog[x].n, exc) THEN x ELSE FindHandler(prog, h, exc)
           ELSE FindHandler(prog, h, exc)

\* control falls onto an except clause: the try statement is over
RECURSIVE SkipExcepts(_, _)
SkipExcepts(prog, j) ==
  IF j <= Len(prog) /\ prog[j].kind = "except"
  THEN SkipExcepts(prog, NextAtMost(prog, j, prog[j].ind))
  ELSE j

\* leaving the body of `except ... as name` unbinds name
LeaveHandler(prog, i, j, namespace) ==
  LET h == Header(prog, i)
  IN  IF /\ h # 0
         /\ prog[h].kind = "except"
         /\ prog[h].e # ""
         /\ (j > Len(prog) \/ prog[j].ind <= prog[h].ind)
         /\ prog[h].e \in DOMAIN namespace
      THEN [k \in DOMAIN namespace \ {prog[h].e} |-> namespace[k]]
      ELSE namespace

Outcome(st, pc, namespace, exc) ==
  [st |-> st, pc |-> pc, ns |-> namespace, exc |-> exc]

NoExc == [type |-> "", value |-> PyNone]
Exc(t, v) == [type |-> t, value |-> v]

\* statement i ended normally and control goes on at line j
GoOn(prog, i, j, namespace) ==
  LET j2 == SkipExcepts(prog, j)
      n2 == LeaveHandler(prog, i, j, namespace)
  IN  IF j2 > Len(prog) THEN Outcome("done", j2, n2, NoExc)
      ELSE Outcome("run", j2, n2, NoExc)

\* statement i raised exc
Throw(prog, i, namespace, exc) ==
  LET x == FindHandler(prog, i, exc)
  IN  IF x = 0 THEN Outcome("raised", i, namespace, exc)
      ELSE Outcome("run", x + 1,
                   IF prog[x].e = "" THEN namespace
                   ELSE Update(namespace, prog[x].e :> ExcObj(exc.value)),
                   NoExc)

\* the function object a def statement at line i binds
FunctionAt(name, i) == [kind |-> "function", id |-> name, of |-> ToString(i)]

\* the line of the def statement a function object came from (0: not from one)
DefLine(prog, f) ==
  Max({0} \cup {i \in 1..Len(prog) : f.kind = "function" /\ f.of = ToString(i)})

\* what a call gave: the exception it raised, or the value it returned
Raises(exc) == [exc |-> exc, value |-> PyNone]
Returns(v) == [exc |-> NoExc, value |-> v]

\* f(*args) and the body of a function defined in the script. The body runs
\* from line j up to line stop with locals of its own over the namespace of
\* the script; the bodies of the modelled scripts are straight-line code.
RECURSIVE Call(_, _, _, _)
RECURSIVE RunBody(_, _, _, _, _)
Call(prog, namespace, f, args) ==
  IF f = Val("function", "abort")
    THEN IF Len(args) = 1 THEN Raises(Exc("HTTPException", args[1]))
         ELSE Raises(Exc("TypeError", PyNone))
  ELSE IF DefLine(prog, f) # 0
    THEN IF args # <<>> THEN Raises(Exc("TypeError", PyNone))
         ELSE RunBody(prog, DefLine(prog, f) + 1,
                      NextAtMost(prog, DefLine(prog, f), prog[DefLine(prog, f)].ind),
                      namespace, <<>>)
  ELSE IF f.kind = "function" THEN Returns(Val("result", f.id))
  ELSE IF f.kind = "class" THEN Returns(Val("instance", f.id))
  ELSE Raises(Exc("TypeError", PyNone))

RunBody(prog, j, stop, namespace, locals) ==
  IF j >= stop THEN Returns(PyNone)
  ELSE
    LET s == prog[j]
        scope == Update(namespace, locals)
    IN  IF s.kind = "assign" THEN
          LET v == EvalTok(scope, s.e)
          IN  IF IsErr(v) THEN Raises(Exc("NameError", PyNone))
              ELSE IF s.x = ""
                   THEN RunBody(prog, j + 1, stop, namespace, Update(locals, s.n :> v))
              ELSE IF s.x = "value" /\ v.kind = "exc"
                   THEN RunBody(prog, j + 1, stop, namespace,
                                Update(locals, s.n :> ExcValue(v)))
              ELSE Raises(Exc("AttributeError", PyNone))
        ELSE IF s.kind = "raise" THEN
          LET c == Lookup(scope, s.n)
              v == IF s.x = "empty" THEN PyNone ELSE EvalTok(scope, s.e)
          IN  IF IsErr(c) \/ IsErr(v) THEN Raises(Exc("NameError", PyNone))
              ELSE IF c # Val("class", "__ScribeReturn__") \/ s.x \notin {"pos", "value"}
                   THEN Raises(Exc("TypeError", PyNone))
              ELSE Raises(Exc("ScribeReturn", v))
        ELSE IF s.kind = "call" THEN
          LET f == Lookup(scope, s.e)
              a == IF s.x = "" THEN PyNone ELSE EvalTok(scope, s.x)
              o == Call(prog, namespace, f, IF s.x = "" THEN <<>> ELSE <<a>>)
          IN  IF IsErr(f) \/ IsErr(a) THEN Raises(Exc("NameError", PyNone))
              ELSE IF o.exc # NoExc THEN o
              ELSE RunBody(prog, j + 1, stop, namespace,
                           IF s.n = "" THEN locals ELSE Update(locals, s.n :> o.value))
        ELSE RunBody(prog, j + 1, stop, namespace, locals)

\* one statement of the compiled code
ExecStmt(prog, i, namespace) ==
  LET s == prog[i]
  IN  IF s.kind = "assign" THEN
        LET v == EvalTok(namespace, s.e)
        IN  IF IsErr(v) THEN Throw(prog, i, namespace, Exc("NameError", PyNone))
            ELSE IF s.x = "" THEN GoOn(prog, i, i + 1, Update(namespace, s.n :> v))
            ELSE IF s.x = "value" /\ v.kind = "exc"
                 THEN GoOn(prog, i, i + 1, Update(namespace, s.n :> ExcValue(v)))
            ELSE Throw(prog, i, namespace, Exc("AttributeError", PyNone))
      ELSE IF s.kind = "if" THEN
        LET v == EvalTok(namespace, s.n)
        IN  IF IsErr(v) THEN Throw(prog, i, namespace, Exc("NameError", PyNone))
            ELSE IF Truthy(v) THEN GoOn(prog, i, i + 1, namespace)
            ELSE GoOn(prog, i, NextAtMost(prog, i, s.ind), namespace)
      ELSE IF s.kind = "raise" THEN
        LET c == Lookup(namespace, s.n)
            v == IF s.x = "empty" THEN PyNone ELSE EvalTok(namespace, s.e)
        IN  IF IsErr(c) \/ IsErr(v) THEN Throw(prog, i, namespace, Exc("NameError", PyNone))
            ELSE IF c # Val("class", "__ScribeReturn__") \/ s.x \notin {"pos", "value"}
                 THEN Throw(prog, i, namespace, Exc("TypeError", PyNone))
            ELSE Throw(prog, i, namespace, Exc("ScribeReturn", v))
      ELSE IF s.kind = "def" THEN
        GoOn(prog, i, NextAtMost(prog, i, s.ind),
             Update(namespace, s.n :> FunctionAt(s.n, i)))
      ELSE IF s.kind = "call" THEN
        LET f == Lookup(namespace, s.e)
            a == IF s.x = "" THEN PyNone ELSE EvalTok(namespace, s.x)
            o == Call(prog, namespace, f, IF s.x = "" THEN <<>> ELSE <<a>>)
        IN  IF IsErr(f) \/ IsErr(a) THEN Throw(prog, i, namespace, Exc("NameError", PyNone))
            ELSE IF o.exc # NoExc THEN Throw(prog, i, namespace, o.exc)
            ELSE GoOn(prog, i, i + 1,
                      IF s.n = "" THEN namespace ELSE Update(namespace, s.n :> o.value))
      ELSE GoOn(prog, i, i + 1, namespace)

\* ------------------------------------------------------- lexer.py
\* A template text is a sequence of atoms as well: the characters the lexer
\* looks at ("@", "(", ")", "'", "DQ" for the double quote, "BSL" for the
\* backslash, "{", "$", "}", "SP", "TAB", "NL") and words of other characters.
\* A token is [type, value, line_number]; columns are not modelled.
IsHSpace(t) == t \in {"SP", "TAB", "IND"}
IsSpace(t) == IsHSpace(t) \/ t = "NL"
Quotes == {"'", "DQ"}

\* words that begin with the letters r-o-u-t-e
RoutePrefixed == {"route", "router"}

Token(type, value, line) == [type |-> type, value |-> value, line_number |-> line]

CountNL(text) == Len(SelectSeq(text, LAMBDA a : a = "NL"))

\* str.strip()
Strip(text) ==
  [t \in {text} |->
     LET keep == {k \in 1..Len(t) : ~IsSpace(t[k])}
     IN  IF keep = {} THEN <<>> ELSE SubSeq(t, Min(keep), Max(keep))][text]

\* first position from i on whose atom is not a blank or tab (Len + 1: none)
SkipHSpace(c, i) ==
  Min({k \in i..(Len(c) + 1) : k = Len(c) + 1 \/ ~IsHSpace(c[k])})

\* the loop of _check_decorator that looks for the end of the decorator
DecoratorEnd(c, i, paren_count, in_string, string_char) ==
  LET loop[st \in [line_end : Nat, paren_count : Int,
                   in_string : BOOLEAN, string_char : STRING]] ==
        IF st.line_end > Len(c) THEN st.line_end
        ELSE LET ch == c[st.line_end]
                 isq == ch \in Quotes /\ (st.line_end = 1 \/ c[st.line_end - 1] # "BSL")
                 ins == IF isq /\ ~st.in_string THEN TRUE
                        ELSE IF isq /\ ch = st.string_char THEN FALSE
                        ELSE st.in_string
                 sch == IF isq /\ ~st.in_string THEN ch ELSE st.string_char
                 pc2 == IF ins THEN st.paren_count
                        ELSE IF ch = "(" THEN st.paren_count + 1
                        ELSE IF ch = ")" THEN st.paren_count - 1
                        ELSE st.paren_count
             IN  IF ~ins /\ ch = "NL" /\ st.paren_count = 0 THEN st.line_end
                 ELSE loop[[line_end |-> st.line_end + 1, paren_count |-> pc2,
                            in_string |-> ins, string_char |-> sch]]
  IN  loop[[line_end |-> i, paren_count |-> paren_count,
            in_string |-> in_string, string_char |-> string_char]]

\* what one of the lexer's checks did: the tokens it appended (starts: where
\* in the text each of them begins), the position and line it moved to
NoHit ==
  [hit |-> FALSE, err |-> FALSE, pos |-> 0, line |-> 0, toks |-> <<>>, starts |-> <<>>]
Hit(pos, line, toks, starts) ==
  [hit |-> TRUE, err |-> FALSE, pos |-> pos, line |-> line, toks |-> toks, starts |-> starts]

\* TemplateLexer._check_decorator
CheckDecorator(c, pos, line) ==
  LET q == SkipHSpace(c, pos)
  IN  IF q > Len(c) \/ c[q] # "@" THEN NoHit
      ELSE LET line_end == DecoratorEnd(c, q, 0, FALSE, "")
               text == Strip(SubSeq(c, q, line_end - 1))
               type == IF Len(text) >= 2 /\ text[2] \in RoutePrefixed
                       THEN "ROUTE_DECORATOR" ELSE "DECORATOR"
               line2 == line + CountNL(SubSeq(c, q, line_end - 1))
           IN  IF line_end <= Len(c) /\ c[line_end] = "NL"
               THEN Hit(line_end + 1, line2 + 1, <<Token(type, text, line)>>, <<q>>)
               ELSE Hit(line_end, line2, <<Token(type, text, line)>>, <<q>>)

IsOpen(c, k) == k + 1 <= Len(c) /\ c[k] = "{" /\ c[k + 1] = "$"
IsClose(c, k) == k + 1 <= Len(c) /\ c[k] = "$" /\ c[k + 1] = "}"

\* a block start that takes the rest of the text as code when no closing
\* marker follows
CheckPythonBlockStartToEnd(c, pos, line) ==
  IF ~IsOpen(c, pos) THEN NoHit
  ELSE LET ends == {k \in (pos + 2)..(Len(c) + 1) : k = Len(c) + 1 \/ IsClose(c, k)}
           k == Min(ends)
           code == SubSeq(c, pos + 2, k - 1)
           line2 == line + CountNL(code)
       IN  Hit(IF k > Len(c) THEN k ELSE k + 2, line2,
               << Token("PYTHON_BLOCK_START", <<"{", "$">>, line),
                  Token("PYTHON_CODE", code, line),
                  Token("PYTHON_BLOCK_END", <<"$", "}">>, line2) >>,
               <<pos, pos + 2, k>>)

\* TemplateLexer._check_python_block_start
CheckPythonBlockStart(c, pos, line) ==
  IF ~IsOpen(c, pos) THEN NoHit
  ELSE LET ends == {k \in (pos + 2)..Len(c) : IsClose(c, k)}
       IN  IF ends = {}
           THEN [hit |-> FALSE, err |-> TRUE, pos |-> pos, line |-> line,
                 toks |-> <<>>, starts |-> <<>>]
           ELSE LET k == Min(ends)
                    code == SubSeq(c, pos + 2, k - 1)
                    line2 == line + CountNL(code)
                IN  Hit(k + 2, line2,
                        << Token("PYTHON_BLOCK_START", <<"{", "$">>, line),
                           Token("PYTHON_CODE", code, line),
                           Token("PYTHON_BLOCK_END", <<"$", "}">>, line2) >>,
                        <<pos, pos + 2, k>>)

\* a look-ahead that passes over line breaks as well as blanks
IsAtDecoratorAnySpace(c, position) ==
  LET before == Max({k \in 0..(position - 1) : k = 0 \/ ~IsHSpace(c[k])})
      check_pos == Min({k \in position..(Len(c) + 1) : k = Len(c) + 1 \/ ~IsSpace(c[k])})
  IN  /\ before = 0 \/ c[before] = "NL"
      /\ check_pos <= Len(c)
      /\ c[check_pos] = "@"

\* TemplateLexer._is_at_decorator; before: the last position ahead of this one
\* that holds no blank or tab (0: there is none)
IsAtDecorator(c, position) ==
  LET before == Max({k \in 0..(position - 1) : k = 0 \/ ~IsHSpace(c[k])})
      check_pos == SkipHSpace(c, position)
  IN  /\ before = 0 \/ c[before] = "NL"
      /\ check_pos <= Len(c)
      /\ c[check_pos] = "@"

\* TemplateLexer._collect_template_content
CollectTemplateContent(c, pos, line) ==
  LET k == Min({j \in pos..(Len(c) + 1) :
                  j = Len(c) + 1 \/ IsAtDecorator(c, j) \/ IsOpen(c, j)})
      text == SubSeq(c, pos, k - 1)
  IN  Hit(k, line + CountNL(text),
          IF text # <<>> THEN <<Token("TEMPLATE_CONTENT", text, line)>> ELSE <<>>,
          IF text # <<>> THEN <<pos>> ELSE <<>>)

LexResult(status, toks, line) == [status |-> status, tokens |-> toks, line |-> line]

\* one turn of the main loop of tokenize: the first check that applies
LexIteration(c, pos, line) ==
  LET d == CheckDecorator(c, pos, line)
      b == CheckPythonBlockStart(c, pos, line)
  IN  IF d.hit THEN d
      ELSE IF b.err \/ b.hit THEN b
      ELSE CollectTemplateContent(c, pos, line)

\* the values a list of tokens is made of
TokenRecords == [type : STRING, value : Seq(STRING), line_number : Nat]

\* TemplateLexer.tokenize from position pos on
TokenizeFrom(c, pos, line, toks) ==
  LET loop[st \in [pos : Nat, line : Nat, toks : Seq(TokenRecords)]] ==
        IF st.pos > Len(c)
        THEN LexResult("ok", Append(st.toks, Token("EOF", <<>>, st.line)), st.line)
        ELSE LET it == LexIteration(c, st.pos, st.line)
             IN  IF it.err THEN LexResult("SyntaxError", <<>>, st.line)
                 ELSE IF it.pos = st.pos THEN LexResult("NoProgress", st.toks, st.line)
                 ELSE loop[[pos |-> it.pos, line |-> it.line, toks |-> st.toks \o it.toks]]
  IN  loop[[pos |-> pos, line |-> line, toks |-> toks]]

Tokenize(c) == TokenizeFrom(c, 1, 1, <<>>)

\* ------------------------------------------------------- parser.py
\* first position from i on whose atom is in set S and that no line break
\* comes before (0: none): what a lazy .*? without DOTALL runs up to
FirstOnLine(text, i, S) ==
  LET hits == {k \in i..Len(text) :
                 text[k] \in S /\ \A j \in i..(k - 1) : text[j] # "NL"}
  IN  IF hits = {} THEN 0 ELSE Min(hits)

\* re.findall(r"['\"](.*?)['\"]", text), upper-cased
RECURSIVE QuotedUpper(_, _)
QuotedUpper(text, i) ==
  LET opens == {k \in i..Len(text) :
                  text[k] \in Quotes /\ FirstOnLine(text, k + 1, Quotes) # 0}
  IN  IF opens = {} THEN <<>>
      ELSE LET o == Min(opens)
               e == FirstOnLine(text, o + 1, Quotes)
           IN  <<SubSeq(text, o + 1, e - 1)>> \o QuotedUpper(text, e + 1)

\* str.upper() of a verb
Upper(w) ==
  IF w = <<"get">> THEN <<"GET">>
  ELSE IF w = <<"post">> THEN <<"POST">>
  ELSE w

\* re.search(r'methods\s*=\s*\[(.*?)\]', args_str): group 1, or "none"
MethodsGroup(args) ==
  LET starts == {k \in 1..Len(args) :
                   /\ args[k] = "methods"
                   /\ LET e == Min({j \in (k + 1)..(Len(args) + 1) :
                                      j = Len(args) + 1 \/ ~IsSpace(args[j])})
                          b == Min({j \in (e + 1)..(Len(args) + 1) :
                                      j = Len(args) + 1 \/ ~IsSpace(args[j])})
                      IN  /\ e <= Len(args) /\ args[e] = "="
                          /\ b <= Len(args) /\ args[b] = "["
                          /\ FirstOnLine(args, b + 1, {"]"}) # 0}
  IN  IF starts = {} THEN [found |-> FALSE, text |-> <<>>]
      ELSE LET k == Min(starts)
               b == Min({j \in (k + 1)..Len(args) : args[j] = "["})
           IN  [found |-> TRUE,
                text |-> SubSeq(args, b + 1, FirstOnLine(args, b + 1, {"]"}) - 1)]

\* TemplateParser._parse_route_decorator
ParseRouteDecorator(text) ==
  LET open2 == IF Len(text) >= 2
               THEN Min({k \in 3..(Len(text) + 1) : k = Len(text) + 1 \/ ~IsSpace(text[k])})
               ELSE 0
      closes == {k \in (open2 + 1)..Len(text) : text[k] = ")"}
  IN  IF Len(text) < 2 \/ text[1] # "@" \/ text[2] # "route"
         \/ open2 > Len(text) \/ text[open2] # "(" \/ closes = {}
      THEN [ok |-> FALSE, path |-> <<>>, methods |-> <<>>]
      ELSE LET args == Strip(SubSeq(text, open2 + 1, Max(closes) - 1))
               pe == IF args # <<>> /\ args[1] \in Quotes
                     THEN FirstOnLine(args, 2, Quotes) ELSE 0
               mg == MethodsGroup(args)
               found == IF mg.found THEN QuotedUpper(mg.text, 1) ELSE <<>>
           IN  IF pe = 0 THEN [ok |-> FALSE, path |-> <<>>, methods |-> <<>>]
               ELSE [ok |-> TRUE,
                     path |-> SubSeq(args, 2, pe - 1),
                     methods |-> IF found # <<>>
                                 THEN [k \in 1..Len(found) |-> Upper(found[k])]
                                 ELSE <<<<"GET">>>>]

\* TemplateParser._parse_decorator: lstrip('@').strip()
ParseDecorator(text) ==
  LET keep == {k \in 1..Len(text) : text[k] # "@"}
  IN  IF keep = {} THEN <<>> ELSE Strip(SubSeq(text, Min(keep), Len(text)))

\* python_code of a route is None until a script block sets it
NoCode == [present |-> FALSE, text |-> <<>>]
Code(text) == [present |-> TRUE, text |-> text]

\* ------------------------------------------------------- ast_nodes.py
\* A path is a sequence of atoms: "/", "<", ">", ":", "-" and atoms of
\* letters, digits and underscores (the characters \w matches).
IsPathWord(a) == a \notin {"/", "<", ">", ":", "-"}

\* the position behind the run of \w atoms that starts at i
WordRunEnd(p, i) ==
  Min({k \in i..(Len(p) + 1) : k = Len(p) + 1 \/ ~IsPathWord(p[k])})

NoMatch == [ok |-> FALSE, type |-> <<>>, name |-> <<>>, end |-> 0]

\* a match of <(?:(?P<type>\w+):)?(?P<name>\w+)> that starts at position i
PlaceholderAt(p, i) ==
  IF i > Len(p) \/ p[i] # "<" THEN NoMatch
  ELSE LET e1 == WordRunEnd(p, i + 1)
           e2 == WordRunEnd(p, e1 + 1)
       IN  IF e1 = i + 1 \/ e1 > Len(p) THEN NoMatch
           ELSE IF p[e1] = ">"
           THEN [ok |-> TRUE, type |-> <<>>, name |-> SubSeq(p, i + 1, e1 - 1),
                 end |-> e1 + 1]
           ELSE IF p[e1] = ":" /\ e2 > e1 + 1 /\ e2 <= Len(p) /\ p[e2] = ">"
           THEN [ok |-> TRUE, type |-> SubSeq(p, i + 1, e1 - 1),
                 name |-> SubSeq(p, e1 + 1, e2 - 1), end |-> e2 + 1]
           ELSE NoMatch

\* re.finditer of that pattern from position i on
RECURSIVE Placeholders(_, _)
Placeholders(p, i) ==
  IF i > Len(p) THEN <<>>
  ELSE IF PlaceholderAt(p, i).ok
       THEN <<PlaceholderAt(p, i)>> \o Placeholders(p, PlaceholderAt(p, i).end)
       ELSE Placeholders(p, i + 1)

\* Route.__post_init__: an entry of path_parameters is match.group('name'),
\* a value that carries the name and nothing else
PathParameters(path) ==
  [k \in 1..Len(Placeholders(path, 1)) |-> [name |-> Placeholders(path, 1)[k].name]]

Route(path, methods, decorators, python_code, template, line) ==
  [path |-> path, methods |-> methods, decorators |-> decorators,
   python_code |-> python_code, template |-> template, line_number |-> line,
   path_parameters |-> PathParameters(path)]

NoRoute == Route(<<>>, <<>>, <<>>, NoCode, <<>>, 0)

\* str.strip('/')
StripSlashes(p) ==
  [t \in {p} |->
     LET keep == {k \in 1..Len(t) : t[k] # "/"}
     IN  IF keep = {} THEN <<>> ELSE SubSeq(t, Min(keep), Max(keep))][p]

\* re.sub(r'<(?:\w+:)?(\w+)>', r'\1', p) from position i on
RECURSIVE SubPlaceholders(_, _)
SubPlaceholders(p, i) ==
  IF i > Len(p) THEN <<>>
  ELSE IF PlaceholderAt(p, i).ok
       THEN PlaceholderAt(p, i).name \o SubPlaceholders(p, PlaceholderAt(p, i).end)
       ELSE <<p[i]>> \o SubPlaceholders(p, i + 1)

\* Route.get_function_name
GetFunctionName(path) ==
  LET stripped == StripSlashes(path)
      flat == [k \in 1..Len(stripped) |-> IF stripped[k] = "/" THEN "_" ELSE stripped[k]]
      named == SubPlaceholders(flat, 1)
      clean == [k \in 1..Len(named) |-> IF IsPathWord(named[k]) THEN named[k] ELSE "_"]
  IN  IF stripped = <<>> THEN <<"route_", "root">> ELSE <<"route_">> \o clean

ParseOutcome(status, route, position) ==
  [status |-> status, route |-> route, position |-> position]

\* the position behind the run of tokens of one type that starts at i
SkipType(toks, i, type) ==
  Min({k \in i..(Len(toks) + 1) : k = Len(toks) + 1 \/ toks[k].type # type})

\* a template loop that passes over every token up to the next route
TemplateEndSkipping(toks, t) ==
  Min({k \in t..(Len(toks) + 1) :
         k = Len(toks) + 1 \/ toks[k].type \in {"ROUTE_DECORATOR", "EOF"}})

\* the template loop of _parse_route, started at token t, collects template
\* content and stops at the first token of another type
TemplateEnd(toks, t) == SkipType(toks, t, "TEMPLATE_CONTENT")

\* where the loop stopped: a route decorator or EOF ends the route, any other
\* token is an error
TemplateStop(toks, k) ==
  IF k > Len(toks) \/ toks[k].type \in {"ROUTE_DECORATOR", "EOF"} THEN "end"
  ELSE "SyntaxError"

\* TemplateParser._parse_route with the cursor at token i
ParseRoute(toks, i) ==
  LET s == SkipType(toks, i, "TEMPLATE_CONTENT")
  IN  IF s > Len(toks) \/ toks[s].type = "EOF"
      THEN ParseOutcome("none", NoRoute, s)
      ELSE IF toks[s].type # "ROUTE_DECORATOR"
      THEN ParseOutcome("SyntaxError", NoRoute, s)
      ELSE LET rd == ParseRouteDecorator(toks[s].value)
               d == SkipType(toks, s + 1, "DECORATOR")
               decorators == [k \in 1..(d - s - 1) |-> ParseDecorator(toks[s + k].value)]
               hasBlock == d <= Len(toks) /\ toks[d].type = "PYTHON_BLOCK_START"
               hasCode == hasBlock /\ d + 1 <= Len(toks) /\ toks[d + 1].type = "PYTHON_CODE"
               e == IF hasCode THEN d + 2 ELSE d + 1
               hasEnd == hasBlock /\ e <= Len(toks) /\ toks[e].type = "PYTHON_BLOCK_END"
               t == IF hasBlock THEN e + 1 ELSE d
               u == TemplateEnd(toks, t)
               template == IF u > t
                           THEN LET parts == [k \in 1..(u - t) |-> toks[t + k - 1].value]
                                    join[k \in 0..(u - t)] ==
                                      IF k = 0 THEN <<>> ELSE join[k - 1] \o parts[k]
                                IN  join[u - t]
                           ELSE <<>>
           IN  IF ~rd.ok THEN ParseOutcome("SyntaxError", NoRoute, s)
               ELSE IF hasBlock /\ ~hasEnd THEN ParseOutcome("SyntaxError", NoRoute, e)
               ELSE IF TemplateStop(toks, u) = "SyntaxError"
                    THEN ParseOutcome("SyntaxError", NoRoute, u)
               ELSE ParseOutcome("route",
                                 Route(rd.path, rd.methods, decorators,
                                       IF hasCode THEN Code(toks[d + 1].value) ELSE NoCode,
                                       template, toks[s].line_number),
                                 u)

\* ------------------------------------------------------- inputs
\* pieces of template files
Segments ==
  { <<"@", "route", "(", "'", "/", "a", "'", ")", "NL">>,
    <<"@", "route", "(", "DQ", "/", "b", "DQ", ",", "SP", "methods", "=", "[",
      "'", "post", "'", "]", ")", "NL">>,
    <<"@", "route", "NL">>,
    <<"@", "auth", "NL">>,
    <<"{", "$", "NL", "a", "SP", "=", "SP", "1", "NL", "$", "}", "NL">>,
    <<"{", "$", "$", "}">>,
    <<"<p>", "NL">>,
    <<"{", "$", "a">>,
    <<"<p>", "@", "x", "NL">>,
    <<"@", "auth", "SP", "{", "$", "NL">>,
    <<"NL">> }

RECURSIVE SegmentRuns(_)
SegmentRuns(n) ==
  IF n = 0 THEN {<<>>}
  ELSE LET shorter == SegmentRuns(n - 1)
       IN  shorter \cup {c \o g : c \in {x \in shorter : TRUE}, g \in Segments}

\* pieces of route paths: a separator, a name, an untyped and a typed
\* placeholder, an underscore, a stray bracket
PathPieces ==
  { <<"/">>, <<"a">>, <<"<", "id", ">">>, <<"<", "int", ":", "id", ">">>,
    <<"_">>, <<"<">> }

RECURSIVE PieceRuns(_, _)
PieceRuns(pieces, n) ==
  IF n = 0 THEN {<<>>}
  ELSE LET shorter == PieceRuns(pieces, n - 1)
       IN  shorter \cup {c \o g : c \in {x \in shorter : TRUE}, g \in pieces}

\* the paths written in route annotations: up to MaxPathPieces pieces in a row
Paths == PieceRuns(PathPieces, MaxPathPieces)

\* the verbs written in methods=[...]: one to MaxVerbs of them
Verbs == {"get", "GET", "post"}
VerbLists == PieceRuns({<<v>> : v \in Verbs}, MaxVerbs) \ {<<>>}

\* 'v1', 'v2', ... as it stands between the brackets
RECURSIVE QuotedList(_)
QuotedList(vs) ==
  IF vs = <<>> THEN <<>>
  ELSE <<"'", Head(vs), "'">>
       \o (IF Len(vs) > 1 THEN <<",", "SP">> ELSE <<>>) \o QuotedList(Tail(vs))

\* @route('<path>') and @route('/a', methods=[<verbs>]), the list on the line
\* of the annotation or on a line of its own inside the parentheses
RouteAnnotations ==
  {<<"@", "route", "(", "'">> \o path \o <<"'", ")">> : path \in Paths}
  \cup
  {<<"@", "route", "(", "'", "/", "a", "'", ",", "SP", "methods", "=", "[">>
     \o br \o QuotedList(vs) \o br \o <<"]", ")">> :
     vs \in VerbLists, br \in {<<>>, <<"NL">>}}

\* what follows the annotation in the file
RouteTails ==
  { <<>>,
    <<"NL">>,
    <<"NL", "{", "$", "NL", "a", "SP", "=", "SP", "1", "NL", "$", "}", "NL",
      "<p>", "NL">>,
    <<"NL", "{", "$", "a">>,
    <<"NL", "{", "$", "$", "}", "{", "$", "$", "}">> }

RouteSources == {a \o t : a \in RouteAnnotations, t \in RouteTails}

\* annotations with arguments: closed, over-closed by a stray `)`, a bracket
\* inside a quoted string, a line break inside a quoted string or inside the
\* parentheses
CallAnnotations ==
  { <<"@", "auth", "(", ")">>,
    <<"@", "auth", "(", ")", ")">>,
    <<"@", "auth", ")">>,
    <<"@", "auth", "(", "'", ")", "'", ")">>,
    <<"@", "auth", "(", "'", "a", "NL", "'", ")">>,
    <<"@", "auth", "(", "NL", ")">> }

\* a route, one of these annotations and the markup of the route
AnnotatedSources ==
  { <<"@", "route", "(", "'", "/", "a", "'", ")", "NL">> \o a \o <<"NL">> \o t :
      a \in CallAnnotations,
      t \in {<<>>, <<"<p>", "NL">>, <<"@", "log", "NL", "<p>", "NL">>} }

\* the template files: up to MaxSegs pieces in a row, the route sources and
\* the annotated sources
Contents == SegmentRuns(MaxSegs) \cup RouteSources \cup AnnotatedSources

\* the template files a project is made of
FileTexts ==
  { <<"@", "route", "(", "'", "/", "a", "/", "b", "'", ")", "NL", "<p>", "NL">>,
    <<"@", "route", "(", "'", "/", "a", "_", "b", "'", ")", "NL",
      "{", "$", "NL", "a", "SP", "=", "SP", "1", "NL", "$", "}", "NL", "<p>", "NL">>,
    <<"@", "route", "(", "'", "/", "c", "'", ")", "NL", "@", "require_auth", "NL",
      "@", "log", "NL", "<p>", "NL">>,
    <<"@", "route", "(", "'", "/", "d", "'", ")", "NL", "{", "$", "SP", "a">>,
    <<"@", "log", "NL", "<p>", "NL">>,
    <<"<p>", "NL">> }

\* the projects: up to MaxFiles template files
Projects == UNION {[1..n -> FileTexts] : n \in 0..MaxFiles}

\* the helpers of a project: none, or a decorator of its own
LoadHelperSets == { <<>>, "log" :> Val("function", "log") }

\* the texts handed to the lexer alone
Texts == SegmentRuns(MaxTextSegs)

\* the statements a script is put together from
Blocks ==
  { <<"a", "=", "1">>,
    <<"val", "=", "2">>,
    <<"val", "=", "a">>,
    <<"x", "=", "open">>,
    <<"x", "=", "re">>,
    <<"_x", "=", "1">>,
    <<"len", "=", "2">>,
    <<"return_url", "=", "1">>,
    <<"return", "SP", "1">>,
    <<"return">>,
    <<"if", "SP", "c", ":", "NL", "IND", "return", "SP", "1">>,
    <<"if", "SP", "c", ":", "NL", "IND", "return">>,
    <<"try", ":", "NL", "IND", "return", "SP", "1", "NL",
      "except", "SP", "Exception", ":", "NL", "IND", "pass">> }

\* route.python_code: no script, or up to MaxBlocks statements
Scripts ==
  {<<>>} \cup
  UNION { { JoinNL(bs) : bs \in [1..n -> Blocks] } : n \in 1..MaxBlocks }

\* the scripts of the concurrent requests
ConcScripts ==
  { <<"a", "=", "1", "NL", "val", "=", "a">>,
    <<"val", "=", "2", "NL", "return", "SP", "1">>,
    <<"val", "=", "a">>,
    <<"return", "NL", "return">> }

\* the statements of the scripts that define and call functions
CallBlocks ==
  { <<"def", "SP", "f", "(", ")", ":", "NL", "IND", "return", "SP", "1">>,
    <<"def", "SP", "g", "(", ")", ":", "NL", "IND", "pass">>,
    <<"def", "SP", "f", "(", ")", ":", "NL", "pass">>,
    <<"x", "=", "f", "(", ")">>,
    <<"g", "(", ")">>,
    <<"abort", "(", "404", ")">>,
    <<"abort", "(", "403", ")">>,
    <<"val", "=", "2">>,
    <<"return", "SP", "1">> }

\* route.python_code of the routes whose scripts call functions
CallScripts ==
  UNION { { JoinNL(bs) : bs \in [1..n -> CallBlocks] } : n \in 1..MaxCallBlocks }

\* the statements of the scripts that use names with the letters of return
\* in them: return_url, no_return, returned
IdentBlocks ==
  { <<"return", "_url", "SP", "=", "SP", "1">>,
    <<"no_", "return", "SP", "=", "SP", "2">>,
    <<"return", "ed", "=", "1">>,
    <<"val", "=", "return", "_url">>,
    <<"val", "=", "no_", "return">>,
    <<"return", "SP", "1">>,
    <<"return">> }

\* route.python_code of the routes whose scripts use such names
IdentScripts ==
  UNION { { JoinNL(bs) : bs \in [1..n -> IdentBlocks] } : n \in 1..MaxIdentBlocks }

\* the scripts handed one after the other to execute() of one context
ReuseScripts ==
  { <<"return", "SP", "1">>,
    <<"val", "=", "2", "NL", "return", "SP", "2">>,
    <<"a", "=", "1">>,
    <<"val", "=", "a">>,
    <<"return">>,
    <<"if", "SP", "a", ":">> }

\* url_params of a request
ParamSets ==
  { <<>>,
    [n \in {"c"} |-> IntVal("0")],
    [n \in {"c"} |-> IntVal("1")],
    [n \in {"re"} |-> Val("str", "abc")] }

\* url_params of the concurrent requests
ConcParamSets == { <<>>, [n \in {"a"} |-> Val("str", "abc")] }

\* the helpers loaded from lib/
HelperSets ==
  { <<>>,
    ("fmt" :> Val("function", "fmt")) @@ ("db" :> Val("object", "lib_db")) @@
    ("len" :> Val("function", "lib_len")) @@ ("re" :> Val("object", "lib_re")) }

\* the helpers the concurrent requests share
ConcHelperSets == HelperSets \ {<<>>}

\* ------------------------------------------------------- state
VARIABLES
  helpers,    \* app.config['HELPERS'], loaded once
  script,     \* script[r]: route.python_code of the route of request r
  params,     \* params[r]: the url_params of request r
  phase,      \* phase[r]: how far the handler of request r has come
  ns,         \* ns[r]: context.namespace of request r
  prog,       \* prog[r]: the code object exec() runs
  pc,         \* pc[r]: the line of prog[r] that runs next
  result,     \* result[r]: what context.execute returned
  response,   \* response[r]: what the handler returned to the web layer
  rendered,   \* rendered[r]: the template_vars handed to render_template_string
  nsBefore,   \* nsBefore[r]: the namespace when execute was called
  reachedExit,\* reachedExit[r]: a rewritten return statement has run
  exitVal,    \* exitVal[r]: the value of the expression of that statement
  afterExit,  \* afterExit[r]: statements of the script run after it
  assigned,   \* assigned[r]: the last value the script gave to each name
  content,    \* the text of the template file handed to TemplateParser.parse
  lposition,  \* lexer.position, counted from 1
  lline,      \* lexer.line
  tokens,     \* lexer.tokens, then parser.tokens
  tokstart,   \* tokstart[i]: where in content the text of tokens[i] begins
  position,   \* parser.position, counted from 1
  routes,     \* the list parse() is collecting
  parsed,     \* what parse() returned
  pphase,     \* how far parse() has come
  perror,     \* the exception parse() raised
  files,      \* the texts of the template files of the project, in glob order
  fileIx,     \* the file the loop of parse_template_files is at
  all_routes, \* all_routes of parse_template_files
  registered, \* the url rules add_url_rule has taken, in order
  lphase,     \* how far create_app has come with the routes
  lerror,     \* the exception that left create_app
  session,    \* the session of the client: a value under each of its keys
  annotations,\* annotations[r]: route.decorators of the route request r asks for
  wrappers,   \* wrappers[r]: the decorators around the handler, outermost first
  wdepth,     \* wdepth[r]: the wrapper request r is in
  url,        \* url[r]: request.url of request r
  served,     \* how many requests have arrived
  mdir,       \* the names of the *.sql files in migrations/
  mauto,      \* the adapter runs every statement in autocommit mode
  mtable,     \* the committed rows of _migrations, in insertion order
  mdone,      \* the committed statement executions: <<run, file, statement>>
  mpending,   \* the rows and executions of the open transaction
  mfiles,     \* migration_files of the run in progress
  mapplied,   \* applied_migrations of the run in progress
  mix,        \* the file the loop of the run is at
  six,        \* the statement of that file to execute next
  mphase,     \* where run_migrations is
  mruns,      \* how many times run_migrations has been called
  mlog,       \* what the runs did, in order
  dconfig,    \* the config handed to DatabaseManager
  dconns,     \* self._connections
  dresult     \* what the last operation on the manager gave

pvars == <<content, lposition, lline, tokens, tokstart, position, routes,
           parsed, pphase, perror>>

lvars == <<files, fileIx, all_routes, registered, lphase, lerror>>

avars == <<session, annotations, wrappers, wdepth, url, served>>

mvars == <<mdir, mauto, mtable, mdone, mpending, mfiles, mapplied, mix, six,
           mphase, mruns, mlog>>

dvars == <<dconfig, dconns, dresult>>

vars == <<helpers, script, params, phase, ns, prog, pc, result, response,
          rendered, nsBefore, reachedExit, exitVal, afterExit, assigned, pvars,
          lvars, avars, mvars, dvars>>

NoError == [kind |-> "", line |-> 0, by |-> ""]
NotReturned == [returned |-> FALSE, routes |-> <<>>]

\* no template file is being parsed
ParserIdle(c) ==
  /\ content = c
  /\ lposition = 1
  /\ lline = 1
  /\ tokens = <<>>
  /\ tokstart = <<>>
  /\ position = 1
  /\ routes = <<>>
  /\ parsed = NotReturned
  /\ pphase = "Source"
  /\ perror = NoError

\* create_app has not come to the routes
LoaderIdle ==
  /\ files = <<>>
  /\ fileIx = 1
  /\ all_routes = <<>>
  /\ registered = <<>>
  /\ lphase = "Idle"
  /\ lerror = NoError

\* the open transaction holds nothing
NoPending == [rows |-> <<>>, stmts |-> {}]

\* run_migrations has not been called
NoMigrations ==
  /\ mdir = {}
  /\ mauto = FALSE
  /\ mtable = <<>>
  /\ mdone = {}
  /\ mpending = NoPending
  /\ mfiles = <<>>
  /\ mapplied = <<>>
  /\ mix = 1
  /\ six = 1
  /\ mphase = "Idle"
  /\ mruns = 0
  /\ mlog = <<>>

\* what an operation on the manager gave: the value it returned or the
\* exception it raised, with the connection names its message lists
OpResult(op, arg, outcome, value, names) ==
  [op |-> op, arg |-> arg, outcome |-> outcome, value |-> value, names |-> names]

NoResult == OpResult("", "", "", "", {})

\* no DatabaseManager has been constructed
NoManager ==
  /\ dconfig = <<>>
  /\ dconns = <<>>
  /\ dresult = NoResult

\* no client has sent a request
NoClient ==
  /\ session = <<>>
  /\ annotations = <<>>
  /\ wrappers = <<>>
  /\ wdepth = <<>>
  /\ url = <<>>
  /\ served = 0

Reqs == 1..NumReqs

NoValue == Val("", "")

InitWith(rs, scripts, paramSets, helperSets) ==
  /\ helpers \in helperSets
  /\ script \in [rs -> scripts]
  /\ params \in [rs -> paramSets]
  /\ phase = [r \in rs |-> "Idle"]
  /\ ns = [r \in rs |-> <<>>]
  /\ prog = [r \in rs |-> <<>>]
  /\ pc = [r \in rs |-> 0]
  /\ result = [r \in rs |-> NoValue]
  /\ response = [r \in rs |-> NoValue]
  /\ rendered = [r \in rs |-> <<>>]
  /\ nsBefore = [r \in rs |-> <<>>]
  /\ reachedExit = [r \in rs |-> FALSE]
  /\ exitVal = [r \in rs |-> NoValue]
  /\ afterExit = [r \in rs |-> 0]
  /\ assigned = [r \in rs |-> <<>>]
  /\ ParserIdle(<<>>)
  /\ LoaderIdle
  /\ NoMigrations
  /\ NoManager
  /\ NoClient

\* one request
Init == InitWith({1}, Scripts, ParamSets, HelperSets)

\* one request to a route whose script calls functions
InitCalls == InitWith({1}, CallScripts, {<<>>}, {<<>>})

\* one request to a route whose script uses names like return_url
InitIdents == InitWith({1}, IdentScripts, {<<>>}, {<<>>})

\* NumReqs requests in flight at once
InitConc == InitWith(Reqs, ConcScripts, ConcParamSets, ConcHelperSets)

\* ------------------------------------------------------- the handler
\* one dict shared by every context
StoreNamespaceShared(r, namespace) == [q \in DOMAIN ns |-> namespace]

\* every ExecutionContext owns the dict behind self.namespace
StoreNamespace(r, namespace) == [ns EXCEPT ![r] = namespace]

\* handler(**url_params): ExecutionContext(...) and the set_variable calls
HandlerStart(r) ==
  /\ phase[r] = "Idle"
  /\ ns' = StoreNamespace(r, HandlerNamespace(helpers, params[r]))
  /\ phase' = [phase EXCEPT ![r] = "NamespaceBuilt"]
  /\ UNCHANGED <<mvars, dvars, lvars, avars, pvars, helpers, script, params, prog, pc, result, response, rendered,
                 nsBefore, reachedExit, exitVal, afterExit, assigned>>

\* exec() puts the builtins module under __builtins__ when the key is missing
WithBuiltins(namespace) ==
  IF "__builtins__" \in DOMAIN namespace THEN namespace
  ELSE Update(namespace, "__builtins__" :> Val("dict", "builtins"))

\* exec(setup_code, namespace, namespace)
ExecSetup(namespace) ==
  Update(WithBuiltins(namespace),
         "__ScribeReturn__" :> Val("class", "__ScribeReturn__"))

\* execute(code) up to the exec() of the script: the search for return, the
\* setup, the rewrite and the wrapping
ExecuteBegin(r) ==
  /\ phase[r] = "NamespaceBuilt"
  /\ script[r] # <<>>
  /\ nsBefore' = [nsBefore EXCEPT ![r] = ns[r]]
  /\ IF HasReturn(script[r])
     THEN /\ ns' = StoreNamespace(r, ExecSetup(ns[r]))
          /\ prog' = [prog EXCEPT ![r] = ParseProgram(WrapCode(TransformReturns(script[r])))]
          /\ phase' = [phase EXCEPT ![r] = "Rewritten"]
     ELSE /\ ns' = StoreNamespace(r, WithBuiltins(ns[r]))
          /\ prog' = [prog EXCEPT ![r] = ParseProgram(script[r])]
          /\ phase' = [phase EXCEPT ![r] = "Unmodified"]
  /\ pc' = [pc EXCEPT ![r] = 1]
  /\ UNCHANGED <<mvars, dvars, lvars, avars, pvars, helpers, script, params, result, response, rendered,
                 reachedExit, exitVal, afterExit, assigned>>

\* the statements of the script proper, without the lines of the wrapper
IsUserLine(r, i) ==
  IF phase[r] = "Rewritten" THEN i \in 2..(Len(prog[r]) - 3) ELSE TRUE

\* the end of execute(): the exit slot is read and kept under __return__
ExecuteReturn(namespace) ==
  LET return_value == DictGet(namespace, "__scribe_return__")
  IN  [value |-> return_value,
       ns |-> IF return_value # PyNone
              THEN Update(namespace, "__return__" :> return_value)
              ELSE namespace]

\* exec() of the code fails to compile: execute raises ExecutionError
ExecCompileError(r) ==
  /\ phase[r] \in {"Rewritten", "Unmodified"}
  /\ ~WellFormed(prog[r])
  /\ phase' = [phase EXCEPT ![r] = "Failed"]
  /\ UNCHANGED <<mvars, dvars, lvars, avars, pvars, helpers, script, params, ns, prog, pc, result, response,
                 rendered, nsBefore, reachedExit, exitVal, afterExit, assigned>>

\* exec() runs one statement; after the last one execute() returns, and an
\* exception nothing catches leaves execute() as ExecutionError
ExecStep(r) ==
  /\ phase[r] \in {"Rewritten", "Unmodified"}
  /\ WellFormed(prog[r])
  /\ IF pc[r] > Len(prog[r])
     THEN LET ret == ExecuteReturn(ns[r])
          IN  /\ phase' = [phase EXCEPT ![r] = "Executed"]
              /\ ns' = StoreNamespace(r, ret.ns)
              /\ result' = [result EXCEPT ![r] = ret.value]
              /\ UNCHANGED <<pc, reachedExit, exitVal, afterExit, assigned>>
     ELSE LET o == ExecStmt(prog[r], pc[r], ns[r])
              isExit == prog[r][pc[r]].kind = "raise" /\ IsUserLine(r, pc[r])
          IN  /\ reachedExit' = [reachedExit EXCEPT ![r] = @ \/ isExit]
              /\ exitVal' = [exitVal EXCEPT ![r] =
                               IF isExit /\ ~reachedExit[r] /\ prog[r][pc[r]].x # "empty"
                               THEN EvalTok(ns[r], prog[r][pc[r]].e)
                               ELSE IF isExit /\ ~reachedExit[r] THEN PyNone
                               ELSE @]
              /\ afterExit' = [afterExit EXCEPT ![r] =
                                 IF reachedExit[r] /\ IsUserLine(r, pc[r])
                                 THEN @ + 1 ELSE @]
              /\ assigned' = [assigned EXCEPT ![r] =
                                IF /\ prog[r][pc[r]].kind = "assign"
                                   /\ IsUserLine(r, pc[r])
                                   /\ prog[r][pc[r]].n \in DOMAIN o.ns
                                   /\ o.pc # pc[r]
                                THEN Update(@, prog[r][pc[r]].n :> o.ns[prog[r][pc[r]].n])
                                ELSE @]
              /\ IF o.st = "raised"
                 THEN /\ phase' = [phase EXCEPT ![r] = "Failed"]
                      /\ ns' = StoreNamespace(r, o.ns)
                      /\ UNCHANGED <<pc, result>>
                 ELSE /\ ns' = StoreNamespace(r, o.ns)
                      /\ pc' = [pc EXCEPT ![r] = o.pc]
                      /\ UNCHANGED <<phase, result>>
  /\ UNCHANGED <<mvars, dvars, lvars, avars, pvars, helpers, script, params, prog, response, rendered, nsBefore>>

\* template_vars of the handler
TemplateVars(namespace, url_params) ==
  LET t1 == Update(GetVariables(namespace), url_params)
      t2 == Update(t1, [n \in {"session", "request", "g"} |-> Val("object", n)])
  IN  Update(t2, [n \in {"csrf", "url_for"} |-> Val("function", n)])

\* if context.has_return_value(): return context.get_variable('__return__')
HandlerExit(r) ==
  /\ phase[r] = "Executed"
  /\ HasReturnValue(ns[r])
  /\ response' = [response EXCEPT ![r] = DictGet(ns[r], "__return__")]
  /\ phase' = [phase EXCEPT ![r] = "ExitProduced"]
  /\ UNCHANGED <<mvars, dvars, lvars, avars, pvars, helpers, script, params, ns, prog, pc, result, rendered,
                 nsBefore, reachedExit, exitVal, afterExit, assigned>>

\* the template is rendered with template_vars
HandlerRender(r) ==
  /\ \/ phase[r] = "Executed" /\ ~HasReturnValue(ns[r])
     \/ phase[r] = "NamespaceBuilt" /\ script[r] = <<>>
  /\ rendered' = [rendered EXCEPT ![r] = TemplateVars(ns[r], params[r])]
  /\ response' = [response EXCEPT ![r] = Val("html", "rendered")]
  /\ phase' = [phase EXCEPT ![r] = "BindingsProduced"]
  /\ UNCHANGED <<mvars, dvars, lvars, avars, pvars, helpers, script, params, ns, prog, pc, result, nsBefore,
                 reachedExit, exitVal, afterExit, assigned>>

\* except Exception of the handler: re-raised in debug mode, a 500 otherwise
HandlerError(r) ==
  /\ phase[r] = "Failed"
  /\ response' = [response EXCEPT ![r] = Val("error", "500")]
  /\ phase' = [phase EXCEPT ![r] = "ErrorProduced"]
  /\ UNCHANGED <<mvars, dvars, lvars, avars, pvars, helpers, script, params, ns, prog, pc, result, rendered,
                 nsBefore, reachedExit, exitVal, afterExit, assigned>>

Next ==
  \/ \E r \in DOMAIN phase : HandlerStart(r)
  \/ \E r \in DOMAIN phase : ExecuteBegin(r)
  \/ \E r \in DOMAIN phase : ExecCompileError(r)
  \/ \E r \in DOMAIN phase : ExecStep(r)
  \/ \E r \in DOMAIN phase : HandlerExit(r)
  \/ \E r \in DOMAIN phase : HandlerRender(r)
  \/ \E r \in DOMAIN phase : HandlerError(r)

Spec == Init /\ [][Next]_vars

SpecConc == InitConc /\ [][Next]_vars

SpecCalls == InitCalls /\ [][Next]_vars

SpecIdents == InitIdents /\ [][Next]_vars

\* ------------------------------------------------------- one context, many runs
\* context = ExecutionContext(); context.execute(code) is about to be called
InitReuse ==
  /\ helpers = <<>>
  /\ script \in [{1} -> ReuseScripts]
  /\ params = [r \in {1} |-> <<>>]
  /\ phase = [r \in {1} |-> "NamespaceBuilt"]
  /\ ns = [r \in {1} |-> BuildGlobals(<<>>, <<>>)]
  /\ prog = [r \in {1} |-> <<>>]
  /\ pc = [r \in {1} |-> 0]
  /\ result = [r \in {1} |-> NoValue]
  /\ response = [r \in {1} |-> NoValue]
  /\ rendered = [r \in {1} |-> <<>>]
  /\ nsBefore = [r \in {1} |-> <<>>]
  /\ reachedExit = [r \in {1} |-> FALSE]
  /\ exitVal = [r \in {1} |-> NoValue]
  /\ afterExit = [r \in {1} |-> 0]
  /\ assigned = [r \in {1} |-> <<>>]
  /\ ParserIdle(<<>>)
  /\ LoaderIdle
  /\ NoMigrations
  /\ NoManager
  /\ NoClient

\* execute() has returned or raised; the caller hands the same context the
\* next script
ExecuteAgain(r) ==
  /\ phase[r] \in {"Executed", "Failed"}
  /\ \E code \in ReuseScripts : script' = [script EXCEPT ![r] = code]
  /\ phase' = [phase EXCEPT ![r] = "NamespaceBuilt"]
  /\ prog' = [prog EXCEPT ![r] = <<>>]
  /\ pc' = [pc EXCEPT ![r] = 0]
  /\ result' = [result EXCEPT ![r] = NoValue]
  /\ reachedExit' = [reachedExit EXCEPT ![r] = FALSE]
  /\ exitVal' = [exitVal EXCEPT ![r] = NoValue]
  /\ afterExit' = [afterExit EXCEPT ![r] = 0]
  /\ assigned' = [assigned EXCEPT ![r] = <<>>]
  /\ UNCHANGED <<mvars, dvars, lvars, avars, pvars, helpers, params, ns, response,
                 rendered, nsBefore>>

NextReuse ==
  \/ ExecuteBegin(1)
  \/ ExecCompileError(1)
  \/ ExecStep(1)
  \/ ExecuteAgain(1)

SpecReuse == InitReuse /\ [][NextReuse]_vars

\* ------------------------------------------------------- TemplateParser.parse
evars == <<helpers, script, params, phase, ns, prog, pc, result, response,
           rendered, nsBefore, reachedExit, exitVal, afterExit, assigned>>

\* a template file is about to be parsed; no request is being served
InitParse ==
  /\ helpers = <<>>
  /\ script = <<>> /\ params = <<>> /\ phase = <<>> /\ ns = <<>>
  /\ prog = <<>> /\ pc = <<>> /\ result = <<>> /\ response = <<>>
  /\ rendered = <<>> /\ nsBefore = <<>> /\ reachedExit = <<>>
  /\ exitVal = <<>> /\ afterExit = <<>> /\ assigned = <<>>
  /\ content = <<>> /\ lposition = 1 /\ lline = 1
  /\ tokens = <<>> /\ tokstart = <<>> /\ position = 1
  /\ routes = <<>> /\ parsed = NotReturned /\ perror = NoError
  /\ pphase = "Unread"
  /\ LoaderIdle
  /\ NoMigrations
  /\ NoManager
  /\ NoClient

\* parse_file(): the text of a template file is read and handed to parse()
ReadSource ==
  /\ pphase = "Unread"
  /\ content' \in Contents
  /\ pphase' = "Source"
  /\ UNCHANGED <<mvars, dvars, lvars, avars, evars, lposition, lline, tokens, tokstart, position, routes,
                 parsed, perror>>

\* tokenize(): one turn of the main loop appends tokens and moves on
LexerStep ==
  /\ pphase = "Source"
  /\ lposition <= Len(content)
  /\ \E it \in {LexIteration(content, lposition, lline)} :
       /\ ~it.err
       /\ tokens' = tokens \o it.toks
       /\ tokstart' = tokstart \o it.starts
       /\ lposition' = it.pos
       /\ lline' = it.line
  /\ UNCHANGED <<mvars, dvars, lvars, avars, evars, content, position, routes, parsed, pphase, perror>>

\* tokenize(): a script block is not closed; parse() ends with the exception
LexerError ==
  /\ pphase = "Source"
  /\ lposition <= Len(content)
  /\ \E it \in {LexIteration(content, lposition, lline)} : it.err
  /\ pphase' = "Failed"
  /\ perror' = [kind |-> "SyntaxError", line |-> lline, by |-> "lexer"]
  /\ UNCHANGED <<mvars, dvars, lvars, avars, evars, content, lposition, lline, tokens, tokstart, position,
                 routes, parsed>>

\* tokenize(): the loop is over, EOF is appended and the tokens go to the parser
LexerEOF ==
  /\ pphase = "Source"
  /\ lposition > Len(content)
  /\ tokens' = Append(tokens, Token("EOF", <<>>, lline))
  /\ tokstart' = Append(tokstart, lposition)
  /\ pphase' = "Tokenized"
  /\ UNCHANGED <<mvars, dvars, lvars, avars, evars, content, lposition, lline, position, routes, parsed, perror>>

AtEOF == position > Len(tokens) \/ tokens[position].type = "EOF"

\* one turn of the loop of parse(): _parse_route() returns a route or None
ParserRoute ==
  /\ pphase = "Tokenized"
  /\ ~AtEOF
  /\ \E o \in {ParseRoute(tokens, position)} :
       /\ o.status # "SyntaxError"
       /\ position' = o.position
       /\ routes' = IF o.status = "route" THEN Append(routes, o.route) ELSE routes
  /\ UNCHANGED <<mvars, dvars, lvars, avars, evars, content, lposition, lline, tokens, tokstart, parsed,
                 pphase, perror>>

\* one turn of the loop of parse(): _parse_route() raises
ParserError ==
  /\ pphase = "Tokenized"
  /\ ~AtEOF
  /\ \E o \in {ParseRoute(tokens, position)} :
       /\ o.status = "SyntaxError"
       /\ position' = o.position
       /\ perror' = [kind |-> "SyntaxError",
                     line |-> IF o.position <= Len(tokens)
                              THEN tokens[o.position].line_number ELSE 0,
                     by |-> "parser"]
  /\ pphase' = "Failed"
  /\ UNCHANGED <<mvars, dvars, lvars, avars, evars, content, lposition, lline, tokens, tokstart, routes, parsed>>

\* parse(): the loop has reached EOF and the routes are returned
ParserReturn ==
  /\ pphase = "Tokenized"
  /\ AtEOF
  /\ parsed' = [returned |-> TRUE, routes |-> routes]
  /\ pphase' = "Parsed"
  /\ UNCHANGED <<mvars, dvars, lvars, avars, evars, content, lposition, lline, tokens, tokstart, position,
                 routes, perror>>

NextParse ==
  \/ ReadSource
  \/ LexerStep
  \/ LexerError
  \/ LexerEOF
  \/ ParserRoute
  \/ ParserError
  \/ ParserReturn

SpecParse == InitParse /\ [][NextParse]_vars

\* ------------------------------------------------------- TemplateLexer.tokenize
\* TemplateLexer(content).tokenize() called on a text of its own
ReadText ==
  /\ pphase = "Unread"
  /\ content' \in Texts
  /\ pphase' = "Source"
  /\ UNCHANGED <<mvars, dvars, lvars, avars, evars, lposition, lline, tokens, tokstart, position, routes,
                 parsed, perror>>

NextTokenize ==
  \/ ReadText
  \/ LexerStep
  \/ LexerError
  \/ LexerEOF

\* tokenize() is one sequential call: while it has not returned or raised, its
\* loop takes the next turn
SpecTokenize ==
  /\ InitParse /\ [][NextTokenize]_vars
  /\ WF_vars(ReadText) /\ WF_vars(LexerStep) /\ WF_vars(LexerError)
  /\ WF_vars(LexerEOF)

\* ------------------------------------------------------- create_app: the routes
\* decorator_expr.split('(')[0].strip()
DecoratorName(expr) ==
  Strip(SubSeq(expr, 1, Min({k \in 1..(Len(expr) + 1) :
                              k = Len(expr) + 1 \/ expr[k] = "("}) - 1))

BuiltinDecorators == {"require_auth"}

\* the decorator a name stands for is known
KnownDecorator(name, hlp) ==
  Len(name) = 1 /\ (name[1] \in BuiltinDecorators \/ name[1] \in DOMAIN hlp)

\* apply_decorators: the wrappers around the handler, the one applied last
\* (the outermost) first; a built-in decorator goes before a helper of its name
ApplyDecorators(decorator_names, hlp) ==
  IF \E k \in 1..Len(decorator_names) : ~KnownDecorator(DecoratorName(decorator_names[k]), hlp)
  THEN [ok |-> FALSE, wrappers |-> <<>>]
  ELSE [ok |-> TRUE,
        wrappers |-> [k \in 1..Len(decorator_names) |->
                        LET name == DecoratorName(decorator_names[Len(decorator_names) + 1 - k])[1]
                        IN  IF name \in BuiltinDecorators THEN [by |-> "builtin", name |-> name]
                            ELSE [by |-> "helper", name |-> name]]]

\* no request is being served
NoRequests ==
  /\ script = <<>> /\ params = <<>> /\ phase = <<>> /\ ns = <<>>
  /\ prog = <<>> /\ pc = <<>> /\ result = <<>> /\ response = <<>>
  /\ rendered = <<>> /\ nsBefore = <<>> /\ reachedExit = <<>>
  /\ exitVal = <<>> /\ afterExit = <<>> /\ assigned = <<>>

\* create_app has loaded the helpers and comes to the routes
InitLoad ==
  /\ helpers \in LoadHelperSets
  /\ NoRequests
  /\ content = <<>> /\ lposition = 1 /\ lline = 1
  /\ tokens = <<>> /\ tokstart = <<>> /\ position = 1
  /\ routes = <<>> /\ parsed = NotReturned /\ perror = NoError
  /\ pphase = "Unread"
  /\ LoaderIdle
  /\ NoMigrations
  /\ NoManager
  /\ NoClient

\* parse_template_files: the template files of the project are found
FindTemplateFiles ==
  /\ lphase = "Idle"
  /\ files' \in Projects
  /\ lphase' = "Parsing"
  /\ UNCHANGED <<mvars, dvars, evars, pvars, avars, fileIx, all_routes, registered, lerror>>

\* parser.parse_file(filepath): the next file is read and handed to parse(),
\* which starts a lexer of its own and an empty list of routes
ReadFile ==
  /\ lphase = "Parsing"
  /\ fileIx <= Len(files)
  /\ pphase = "Unread"
  /\ content' = files[fileIx]
  /\ lposition' = 1 /\ lline' = 1 /\ tokens' = <<>> /\ tokstart' = <<>>
  /\ position' = 1 /\ routes' = <<>> /\ parsed' = NotReturned
  /\ pphase' = "Source"
  /\ UNCHANGED <<mvars, dvars, evars, avars, lvars, perror>>

\* parse_template_files: parse_file has returned and its routes are added
ParseFile ==
  /\ lphase = "Parsing"
  /\ pphase = "Parsed"
  /\ all_routes' = all_routes \o parsed.routes
  /\ fileIx' = fileIx + 1
  /\ pphase' = "Unread"
  /\ UNCHANGED <<mvars, dvars, evars, avars, files, registered, lphase, lerror, content, lposition,
                 lline, tokens, tokstart, position, routes, parsed, perror>>

\* a loop that goes on with the next file when one fails to parse
ParseFileSkipFailure ==
  /\ lphase = "Parsing"
  /\ pphase = "Failed"
  /\ fileIx' = fileIx + 1
  /\ pphase' = "Unread"
  /\ UNCHANGED <<mvars, dvars, evars, avars, files, all_routes, registered, lphase, lerror, content,
                 lposition, lline, tokens, tokstart, position, routes, parsed, perror>>

\* parse_template_files: parse_file has raised; the exception is printed and
\* raised again, and nothing in create_app catches it
ParseFileFailure ==
  /\ lphase = "Parsing"
  /\ pphase = "Failed"
  /\ lphase' = "Aborted"
  /\ lerror' = perror
  /\ UNCHANGED <<mvars, dvars, evars, pvars, avars, files, fileIx, all_routes, registered>>

\* parse_template_files returns all_routes and register_routes begins
ParseFilesReturn ==
  /\ lphase = "Parsing"
  /\ fileIx > Len(files)
  /\ pphase = "Unread"
  /\ lphase' = "Registering"
  /\ UNCHANGED <<mvars, dvars, evars, pvars, avars, files, fileIx, all_routes, registered, lerror>>

\* the route the loop of register_routes is at
NextToRegister == all_routes[Len(registered) + 1]

Endpoints == {registered[k].endpoint : k \in 1..Len(registered)}

\* register_routes: one route gets its handler, its decorators, its endpoint
\* name and its url rule
RegisterRoute ==
  /\ lphase = "Registering"
  /\ Len(registered) < Len(all_routes)
  /\ \E route \in {NextToRegister} :
       /\ ApplyDecorators(route.decorators, helpers).ok
       /\ GetFunctionName(route.path) \notin Endpoints
       /\ registered' = Append(registered,
                                [rule |-> route.path,
                                 endpoint |-> GetFunctionName(route.path),
                                 methods |-> route.methods,
                                 wrappers |-> ApplyDecorators(route.decorators, helpers).wrappers])
  /\ UNCHANGED <<mvars, dvars, evars, pvars, avars, files, fileIx, all_routes, lphase, lerror>>

\* register_routes: apply_decorators raises ValueError for a decorator it does
\* not know, and add_url_rule raises AssertionError for an endpoint name that
\* is already bound to the handler of another route
RegisterFailure ==
  /\ lphase = "Registering"
  /\ Len(registered) < Len(all_routes)
  /\ \E route \in {NextToRegister} :
       \/ /\ ~ApplyDecorators(route.decorators, helpers).ok
          /\ lerror' = [kind |-> "ValueError", line |-> 0, by |-> "apply_decorators"]
       \/ /\ ApplyDecorators(route.decorators, helpers).ok
          /\ GetFunctionName(route.path) \in Endpoints
          /\ lerror' = [kind |-> "AssertionError", line |-> 0, by |-> "add_url_rule"]
  /\ lphase' = "Aborted"
  /\ UNCHANGED <<mvars, dvars, evars, pvars, avars, files, fileIx, all_routes, registered>>

\* register_routes returns
RegisterReturn ==
  /\ lphase = "Registering"
  /\ Len(registered) = Len(all_routes)
  /\ lphase' = "Loaded"
  /\ UNCHANGED <<mvars, dvars, evars, pvars, avars, files, fileIx, all_routes, registered, lerror>>

NextLoad ==
  \/ FindTemplateFiles
  \/ ReadFile
  \/ LexerStep
  \/ LexerError
  \/ LexerEOF
  \/ ParserRoute
  \/ ParserError
  \/ ParserReturn
  \/ ParseFile
  \/ ParseFileFailure
  \/ ParseFilesReturn
  \/ RegisterRoute
  \/ RegisterFailure
  \/ RegisterReturn

SpecLoad == InitLoad /\ [][NextLoad]_vars

\* ------------------------------------------------------- helpers/auth.py
\* route.decorators of the routes a client asks for
RouteDecorators ==
  { <<>>,
    << <<"require_auth">> >>,
    << <<"require_auth", "(", "'", "/admin/login", "'", ")">> >>,
    << <<"require_auth", "(", "login_url", "=", "'", "/admin/login", "'", ")">> >>,
    << <<"require_auth">>, <<"log">> >>,
    << <<"log">>, <<"require_auth">> >>,
    << <<"log">> >> }

\* the helpers of that application: a decorator that calls the function it
\* wraps, and a helper with the name of the built-in decorator
AuthHelpers ==
  ("log" :> Val("function", "log")) @@
  ("require_auth" :> Val("function", "lib_require_auth"))

\* the scripts of those routes
AuthScripts == ConcScripts

\* request.url
Urls == {"/x", "/y"}

\* 'user_id' in session
Authenticated(sess) == "user_id" \in DOMAIN sess

\* redirect(login_url): apply_decorators calls require_auth(handler) whatever
\* the annotation holds between its brackets, so login_url is the default
LoginRedirect == Val("redirect", "/login")

\* how the handler of a request ended
Answered == {"ExitProduced", "BindingsProduced", "ErrorProduced", "Redirected"}

\* the application is up and no request has arrived
InitAuth ==
  /\ helpers = AuthHelpers
  /\ script = [r \in {1} |-> <<>>]
  /\ params = [r \in {1} |-> <<>>]
  /\ phase = [r \in {1} |-> "NoRequest"]
  /\ ns = [r \in {1} |-> <<>>]
  /\ prog = [r \in {1} |-> <<>>]
  /\ pc = [r \in {1} |-> 0]
  /\ result = [r \in {1} |-> NoValue]
  /\ response = [r \in {1} |-> NoValue]
  /\ rendered = [r \in {1} |-> <<>>]
  /\ nsBefore = [r \in {1} |-> <<>>]
  /\ reachedExit = [r \in {1} |-> FALSE]
  /\ exitVal = [r \in {1} |-> NoValue]
  /\ afterExit = [r \in {1} |-> 0]
  /\ assigned = [r \in {1} |-> <<>>]
  /\ ParserIdle(<<>>)
  /\ LoaderIdle
  /\ NoMigrations
  /\ NoManager
  /\ session = <<>>
  /\ annotations = [r \in {1} |-> <<>>]
  /\ wrappers = [r \in {1} |-> <<>>]
  /\ wdepth = [r \in {1} |-> 1]
  /\ url = [r \in {1} |-> "/x"]
  /\ served = 0

\* the client asks for a registered route: the web layer calls the outermost
\* wrapper that apply_decorators put around the handler of the route
RequestArrives(r) ==
  /\ phase[r] \in Answered \cup {"NoRequest"}
  /\ served < MaxRequests
  /\ served' = served + 1
  /\ \E code \in AuthScripts, ds \in RouteDecorators, u \in Urls :
       /\ ApplyDecorators(ds, helpers).ok
       /\ script' = [script EXCEPT ![r] = code]
       /\ annotations' = [annotations EXCEPT ![r] = ds]
       /\ wrappers' = [wrappers EXCEPT ![r] = ApplyDecorators(ds, helpers).wrappers]
       /\ url' = [url EXCEPT ![r] = u]
  /\ wdepth' = [wdepth EXCEPT ![r] = 1]
  /\ phase' = [phase EXCEPT ![r] = "Dispatched"]
  /\ ns' = [ns EXCEPT ![r] = <<>>]
  /\ prog' = [prog EXCEPT ![r] = <<>>]
  /\ pc' = [pc EXCEPT ![r] = 0]
  /\ result' = [result EXCEPT ![r] = NoValue]
  /\ response' = [response EXCEPT ![r] = NoValue]
  /\ rendered' = [rendered EXCEPT ![r] = <<>>]
  /\ nsBefore' = [nsBefore EXCEPT ![r] = <<>>]
  /\ reachedExit' = [reachedExit EXCEPT ![r] = FALSE]
  /\ exitVal' = [exitVal EXCEPT ![r] = NoValue]
  /\ afterExit' = [afterExit EXCEPT ![r] = 0]
  /\ assigned' = [assigned EXCEPT ![r] = <<>>]
  /\ UNCHANGED <<mvars, dvars, lvars, pvars, helpers, params, session>>

\* the wrapper the request is in is the one of the built-in require_auth
InRequireAuth(r) ==
  /\ phase[r] = "Dispatched"
  /\ wdepth[r] <= Len(wrappers[r])
  /\ wrappers[r][wdepth[r]].by = "builtin"
  /\ wrappers[r][wdepth[r]].name = "require_auth"

\* wrapper() of require_auth: no user_id in the session, so the requested url
\* is kept and the client is sent to the login page
RequireAuthRedirect(r) ==
  /\ InRequireAuth(r)
  /\ ~Authenticated(session)
  /\ session' = Update(session, "next_url" :> Val("str", url[r]))
  /\ response' = [response EXCEPT ![r] = LoginRedirect]
  /\ phase' = [phase EXCEPT ![r] = "Redirected"]
  /\ UNCHANGED <<mvars, dvars, lvars, pvars, helpers, script, params, ns, prog, pc, result, rendered,
                 nsBefore, reachedExit, exitVal, afterExit, assigned, annotations,
                 wrappers, wdepth, url, served>>

\* wrapper() of require_auth with a user_id in the session, or the wrapper
\* of a helper decorator: the wrapped function is called
WrapperCalls(r) ==
  /\ phase[r] = "Dispatched"
  /\ wdepth[r] <= Len(wrappers[r])
  /\ InRequireAuth(r) => Authenticated(session)
  /\ wdepth' = [wdepth EXCEPT ![r] = @ + 1]
  /\ UNCHANGED <<mvars, dvars, lvars, pvars, evars, session, annotations, wrappers, url, served>>

\* the innermost wrapper calls handler(**url_params)
HandlerCalled(r) ==
  /\ phase[r] = "Dispatched"
  /\ wdepth[r] > Len(wrappers[r])
  /\ phase' = [phase EXCEPT ![r] = "Idle"]
  /\ UNCHANGED <<mvars, dvars, lvars, pvars, avars, helpers, script, params, ns, prog, pc, result,
                 response, rendered, nsBefore, reachedExit, exitVal, afterExit, assigned>>

\* login_user(user_id), called by the script of a login route
LoginUser ==
  /\ \A r \in DOMAIN phase : phase[r] \in Answered \cup {"NoRequest"}
  /\ session' = Update(session, "user_id" :> IntVal("1"))
  /\ UNCHANGED <<mvars, dvars, lvars, pvars, evars, annotations, wrappers, wdepth, url, served>>

\* logout_user(): session.clear()
LogoutUser ==
  /\ \A r \in DOMAIN phase : phase[r] \in Answered \cup {"NoRequest"}
  /\ session' = <<>>
  /\ UNCHANGED <<mvars, dvars, lvars, pvars, evars, annotations, wrappers, wdepth, url, served>>

NextAuth ==
  \/ \E r \in DOMAIN phase : RequestArrives(r)
  \/ \E r \in DOMAIN phase : RequireAuthRedirect(r)
  \/ \E r \in DOMAIN phase : WrapperCalls(r)
  \/ \E r \in DOMAIN phase : HandlerCalled(r)
  \/ \E r \in DOMAIN phase : HandlerStart(r)
  \/ \E r \in DOMAIN phase : ExecuteBegin(r)
  \/ \E r \in DOMAIN phase : ExecCompileError(r)
  \/ \E r \in DOMAIN phase : ExecStep(r)
  \/ \E r \in DOMAIN phase : HandlerExit(r)
  \/ \E r \in DOMAIN phase : HandlerRender(r)
  \/ \E r \in DOMAIN phase : HandlerError(r)
  \/ LoginUser
  \/ LogoutUser

SpecAuth == InitAuth /\ [][NextAuth]_vars

\* ------------------------------------------------------- migrations/runner.py
\* A file name is the sequence of its characters; "." stands for the
\* extension .sql that every migration file ends in.
Digits == <<"0", "1", "2", "3", "4", "5", "6", "7", "8", "9">>

DigitValue(a) == CHOOSE d \in 0..9 : Digits[d + 1] = a

IsDigit(a) == \E d \in 1..10 : Digits[d] = a

\* ord(): digits come before the underscore, the underscore before letters
CharCode(a) ==
  IF a = "." THEN 46
  ELSE IF IsDigit(a) THEN 48 + DigitValue(a)
  ELSE IF a = "_" THEN 95
  ELSE IF a = "a" THEN 97
  ELSE IF a = "b" THEN 98
  ELSE 99

\* str < str
RECURSIVE StrLess(_, _)
StrLess(x, y) ==
  IF y = <<>> THEN FALSE
  ELSE IF x = <<>> THEN TRUE
  ELSE IF CharCode(x[1]) # CharCode(y[1]) THEN CharCode(x[1]) < CharCode(y[1])
  ELSE StrLess(Tail(x), Tail(y))

\* migration_files.sort()
RECURSIVE SortFiles(_)
SortFiles(names) ==
  IF names = {} THEN <<>>
  ELSE LET first == CHOOSE x \in names : \A y \in names \ {x} : StrLess(x, y)
       IN  <<first>> \o SortFiles(names \ {first})

\* the leading digits of a file name
LeadingDigits(name) ==
  SubSeq(name, 1, Max({k \in 0..Len(name) : \A j \in 1..k : IsDigit(name[j])}))

\* int(num_str)
RECURSIVE ToInt(_)
ToInt(ds) ==
  IF ds = <<>> THEN 0
  ELSE 10 * ToInt(SubSeq(ds, 1, Len(ds) - 1)) + DigitValue(ds[Len(ds)])

\* f"{n:03d}"
RECURSIVE Decimal(_)
Decimal(n) == IF n < 10 THEN <<Digits[n + 1]>>
              ELSE Decimal(n \div 10) \o <<Digits[(n % 10) + 1]>>
Pad3(n) ==
  IF n < 10 THEN <<"0", "0">> \o Decimal(n)
  ELSE IF n < 100 THEN <<"0">> \o Decimal(n)
  ELSE Decimal(n)

\* the file create_migration writes into a directory that holds names
NewMigration(names) ==
  LET numbers == {ToInt(LeadingDigits(f)) : f \in {g \in names : IsDigit(g[1])}}
      next_num == IF numbers = {} THEN 1 ELSE Max(numbers) + 1
  IN  Pad3(next_num) \o <<"_", "c", ".">>

\* the migration files a project may hold
MigrationNames ==
  { <<"0", "0", "1", "_", "a", ".">>,
    <<"0", "0", "2", "_", "b", ".">>,
    <<"0", "1", "0", "_", "a", ".">>,
    <<"2", "_", "a", ".">>,
    <<"9", "_", "b", ".">>,
    <<"1", "0", "_", "a", ".">>,
    <<"9", "9", "9", "_", "b", ".">> }

\* len(_split_sql_statements(sql)): the file create_migration writes holds
\* comments only, the files a project comes with hold two statements
Statements(name) == IF name[Len(name) - 1] = "c" THEN 0 ELSE 2

\* [row['filename'] for row in results]
Filenames(rows) == {rows[k] : k \in 1..Len(rows)}

Event(ev, file, k) == [run |-> mruns, ev |-> ev, file |-> file, k |-> k]

\* a project with its migrations/ directory and a database without rows
InitMigrate ==
  /\ helpers = <<>>
  /\ NoRequests
  /\ ParserIdle(<<>>)
  /\ LoaderIdle
  /\ NoManager
  /\ NoClient
  /\ mdir \in {d \in SUBSET MigrationNames : Cardinality(d) <= MaxMigrations}
  /\ mauto \in BOOLEAN
  /\ mtable = <<>>
  /\ mdone = {}
  /\ mpending = NoPending
  /\ mfiles = <<>>
  /\ mapplied = <<>>
  /\ mix = 1
  /\ six = 1
  /\ mphase = "Idle"
  /\ mruns = 0
  /\ mlog = <<>>

\* create_migration between two runs
CreateMigration ==
  /\ mphase \in {"Idle", "Returned", "Raised"}
  /\ Cardinality(mdir) <= MaxMigrations
  /\ mruns < MaxRuns
  /\ NewMigration(mdir) \notin mdir
  /\ mdir' = mdir \cup {NewMigration(mdir)}
  /\ UNCHANGED <<evars, pvars, lvars, avars, dvars, mauto, mtable, mdone, mpending,
                 mfiles, mapplied, mix, six, mphase, mruns, mlog>>

\* run_migrations up to its loop: the tracking table, the sorted files and
\* the names already in _migrations
MigrateStart ==
  /\ mphase \in {"Idle", "Returned", "Raised"}
  /\ mruns < MaxRuns
  /\ mruns' = mruns + 1
  /\ mfiles' = SortFiles(mdir)
  /\ mix' = 1
  /\ six' = 1
  /\ IF mdir = {}
     THEN mphase' = "Returned" /\ UNCHANGED mapplied
     ELSE mphase' = "Loop" /\ mapplied' = mtable
  /\ UNCHANGED <<evars, pvars, lvars, avars, dvars, mdir, mauto, mtable, mdone,
                 mpending, mlog>>

\* the loop is at a file that run_migrations has to look at
AtFile ==
  /\ mphase = "Loop"
  /\ mix <= Len(mfiles)

\* if filename in applied_migrations: continue
MigrateSkip ==
  /\ AtFile
  /\ mfiles[mix] \in Filenames(mapplied)
  /\ mix' = mix + 1
  /\ mlog' = Append(mlog, Event("skip", mfiles[mix], 0))
  /\ UNCHANGED <<evars, pvars, lvars, avars, dvars, mdir, mauto, mtable, mdone,
                 mpending, mfiles, mapplied, six, mphase, mruns>>

\* db.execute(statement) succeeds
MigrateExecute ==
  /\ AtFile
  /\ mfiles[mix] \notin Filenames(mapplied)
  /\ six <= Statements(mfiles[mix])
  /\ IF mauto
     THEN /\ mdone' = mdone \cup {<<mruns, mfiles[mix], six>>}
          /\ UNCHANGED mpending
     ELSE /\ mpending' = [mpending EXCEPT
                            !.stmts = @ \cup {<<mruns, mfiles[mix], six>>}]
          /\ UNCHANGED mdone
  /\ six' = six + 1
  /\ mlog' = Append(mlog, Event("execute", mfiles[mix], six))
  /\ UNCHANGED <<evars, pvars, lvars, avars, dvars, mdir, mauto, mtable, mfiles,
                 mapplied, mix, mphase, mruns>>

\* db.execute(statement) raises: db.rollback() and the exception goes on
MigrateFailure ==
  /\ AtFile
  /\ mfiles[mix] \notin Filenames(mapplied)
  /\ six <= Statements(mfiles[mix])
  /\ mpending' = NoPending
  /\ mphase' = "Raised"
  /\ mlog' = Append(mlog, Event("failure", mfiles[mix], six))
  /\ UNCHANGED <<evars, pvars, lvars, avars, dvars, mdir, mauto, mtable, mdone,
                 mfiles, mapplied, mix, six, mruns>>

\* _record_migration(db, filename) and db.commit() after the last statement
MigrateRecord ==
  /\ AtFile
  /\ mfiles[mix] \notin Filenames(mapplied)
  /\ six > Statements(mfiles[mix])
  /\ mtable' = mtable \o mpending.rows \o <<mfiles[mix]>>
  /\ mdone' = mdone \cup mpending.stmts
  /\ mpending' = NoPending
  /\ mix' = mix + 1
  /\ six' = 1
  /\ mlog' = Append(mlog, Event("record", mfiles[mix], 0))
  /\ UNCHANGED <<evars, pvars, lvars, avars, dvars, mdir, mauto, mfiles, mapplied,
                 mphase, mruns>>

\* the loop is over: run_migrations returns
MigrateReturn ==
  /\ mphase = "Loop"
  /\ mix > Len(mfiles)
  /\ mphase' = "Returned"
  /\ UNCHANGED <<evars, pvars, lvars, avars, dvars, mdir, mauto, mtable, mdone,
                 mpending, mfiles, mapplied, mix, six, mruns, mlog>>

NextMigrate ==
  \/ CreateMigration
  \/ MigrateStart
  \/ MigrateSkip
  \/ MigrateExecute
  \/ MigrateFailure
  \/ MigrateRecord
  \/ MigrateReturn

SpecMigrate == InitMigrate /\ [][NextMigrate]_vars

\* ------------------------------------------------------- database/manager.py
\* the configs of scribe.json: a dict with the keys it holds; the config of
\* one connection is named by the database it opens
DConfigs ==
  { <<>>,
    [k \in {"database"} |-> "legacy.db"],
    [k \in {"databases"} |-> <<>>],
    [k \in {"databases"} |-> ("default" :> "app.db")],
    [k \in {"databases"} |-> ("analytics" :> "stats.db")],
    [k \in {"databases"} |-> ("default" :> "app.db") @@ ("analytics" :> "stats.db")],
    ("database" :> "legacy.db") @@ ("databases" :> ("analytics" :> "stats.db")) }

\* the names and attributes a caller asks the manager for
ConnectionNames == {"default", "analytics", "other", "database"}
AttributeNames ==
  {"query", "execute", "default", "databases", "keys", "values", "items", "get",
   "close_all", "_connections", "_config", "_connection_names", "_x"}

\* create_adapter(db_config)
Adapter(db_config) == db_config

\* what normal attribute lookup finds on a manager: the attributes __init__
\* sets and the methods of the class
InstanceAttributes == {"_connections", "_config", "_connection_names"}
ClassMethods == {"keys", "values", "items", "get", "close_all"}

\* name.startswith('_')
IsPrivate(name) == name \in {"_connections", "_config", "_connection_names", "_x"}

\* config['databases'] after the conversion of the old 'database' key
DatabasesConfig(config) ==
  IF "database" \in DOMAIN config /\ "databases" \notin DOMAIN config
  THEN "default" :> config["database"]
  ELSE IF "databases" \in DOMAIN config THEN config["databases"]
  ELSE <<>>

\* the manager exists: __init__ has returned
Built == dresult.op # "" /\ dresult.outcome # "ValueError"

\* scribe.json has been read, no manager has been constructed
InitManager ==
  /\ helpers = <<>>
  /\ NoRequests
  /\ ParserIdle(<<>>)
  /\ LoaderIdle
  /\ NoMigrations
  /\ NoClient
  /\ dconfig \in DConfigs
  /\ dconns = <<>>
  /\ dresult = NoResult

\* DatabaseManager(config)
ManagerInit ==
  /\ dresult = NoResult
  /\ IF DatabasesConfig(dconfig) = <<>>
     THEN /\ dresult' = OpResult("init", "", "ValueError", "", {})
          /\ UNCHANGED <<dconfig, dconns>>
     ELSE /\ dconfig' = Update(dconfig, "databases" :> DatabasesConfig(dconfig))
          /\ dconns' = [name \in DOMAIN DatabasesConfig(dconfig) |->
                          Adapter(DatabasesConfig(dconfig)[name])]
          /\ dresult' = OpResult("init", "", "ok", "", {})
  /\ UNCHANGED <<evars, pvars, lvars, avars, mvars>>

\* db[name]
ManagerGetItem ==
  /\ Built
  /\ \E name \in ConnectionNames :
       dresult' = IF name \notin DOMAIN dconns
                  THEN OpResult("getitem", name, "KeyError", "", DOMAIN dconns)
                  ELSE OpResult("getitem", name, "adapter", dconns[name], {})
  /\ UNCHANGED <<evars, pvars, lvars, avars, mvars, dconfig, dconns>>

\* name in db
ManagerContains ==
  /\ Built
  /\ \E name \in ConnectionNames :
       dresult' = OpResult("contains", name,
                           IF name \in DOMAIN dconns THEN "True" ELSE "False", "", {})
  /\ UNCHANGED <<evars, pvars, lvars, avars, mvars, dconfig, dconns>>

\* db.get(name)
ManagerGet ==
  /\ Built
  /\ \E name \in ConnectionNames :
       dresult' = IF name \in DOMAIN dconns
                  THEN OpResult("get", name, "adapter", dconns[name], {})
                  ELSE OpResult("get", name, "None", "", {})
  /\ UNCHANGED <<evars, pvars, lvars, avars, mvars, dconfig, dconns>>

\* a __getattr__ that hands a public name on to the 'default' connection
GetAttrDispatching(conns, name) ==
  IF name \in InstanceAttributes \cup ClassMethods
    THEN OpResult("getattr", name, "attribute", name, {})
  ELSE IF IsPrivate(name)
    THEN OpResult("getattr", name, "AttributeError", "", {})
  ELSE IF "default" \in DOMAIN conns
    THEN OpResult("getattr", name, "dispatched", conns["default"], {})
  ELSE OpResult("getattr", name, "AttributeError", "", DOMAIN conns)

\* db.<name>: what the attribute lookup finds, and __getattr__ for the rest
GetAttr(conns, name) ==
  IF name \in InstanceAttributes \cup ClassMethods
    THEN OpResult("getattr", name, "attribute", name, {})
  ELSE IF IsPrivate(name)
    THEN OpResult("getattr", name, "AttributeError", "", {})
  ELSE OpResult("getattr", name, "AttributeError", "", DOMAIN conns)

ManagerGetAttr ==
  /\ Built
  /\ \E name \in AttributeNames : dresult' = GetAttr(dconns, name)
  /\ UNCHANGED <<evars, pvars, lvars, avars, mvars, dconfig, dconns>>

NextManager ==
  \/ ManagerInit
  \/ ManagerGetItem
  \/ ManagerContains
  \/ ManagerGet
  \/ ManagerGetAttr

SpecManager == InitManager /\ [][NextManager]_vars

\* ------------------------------------------------------- properties
\* execute() has returned to the handler
Returned(r) ==
  script[r] # <<>> /\ phase[r] \in {"Executed", "ExitProduced", "BindingsProduced"}

\* execute() has raised ExecutionError
Raised(r) == phase[r] \in {"Failed", "ErrorProduced"}

\* every return statement of the text has an expression on its line
AllReturnsValued(code) ==
  \A i \in 1..Len(code) :
    AtReturn(code, i) =>
      i + 2 <= Len(code) /\ code[i + 1] = "SP" /\ ~IsWs(code[i + 2])

\* every return statement of the text is a bare one that ends its line
AllReturnsBare(code) ==
  \A i \in 1..Len(code) :
    AtReturn(code, i) => (i = Len(code) \/ code[i + 1] = "NL")

NonBlankLines(code) == SelectSeq(SplitNL(code), LAMBDA l : ~IsBlank(l))

\* the names the text assigns
AssignedNames(code) ==
  LET p == ParseProgram(code)
  IN  {p[i].n : i \in {k \in 1..Len(p) : p[k].kind = "assign"}}

\* C1: when a script reaches `return V`, execute returns V and nothing after
\* the statement runs; when it reaches no exit statement, execute returns None.
C1_ExitReturnsValue ==
  \A r \in DOMAIN phase :
    AllReturnsValued(script[r]) =>
      /\ reachedExit[r] =>
           /\ afterExit[r] = 0
           /\ ~Raised(r)
           /\ Returned(r) => result[r] = exitVal[r]
      /\ (Returned(r) /\ ~reachedExit[r]) => result[r] = PyNone

\* C2 as stated: after a script without exit statement, execute returned None
\* and get_variables() holds exactly the names the script assigns.
C2_ExactlyAssigned ==
  \A r \in DOMAIN phase :
    (Returned(r) /\ ~HasReturn(script[r])) =>
      /\ result[r] = PyNone
      /\ DOMAIN GetVariables(ns[r]) = AssignedNames(script[r])
      /\ \A n \in AssignedNames(script[r]) : GetVariables(ns[r])[n] = assigned[r][n]

HiddenKey(n) ==
  n \in SafeBuiltinNames \/ n \in FrameworkNames \/ n \in UnderscoreNames

HiddenValue(v) == v.kind \in {"module", "function", "class"}

\* C2 as amended: after a script without exit statement that ran to its end,
\* execute returned what the exit slot held before the call (None on a fresh
\* context) and get_variables() holds every name that was bound before the
\* call or assigned by the script, with its last value, except names of safe
\* builtins, db/session/request/g, names starting with an underscore, and
\* names whose value is a module, a function or a class.
C2_AssignedAndVisible ==
  \A r \in DOMAIN phase :
    (Returned(r) /\ ~HasReturn(script[r])) =>
      LET gv == GetVariables(ns[r])
          an == AssignedNames(script[r])
      IN  /\ result[r] = DictGet(nsBefore[r], "__scribe_return__")
          /\ result[r] = PyNone
          /\ DOMAIN assigned[r] = an
          /\ \A n \in an :
               IF HiddenKey(n) \/ HiddenValue(assigned[r][n])
               THEN n \notin DOMAIN gv
               ELSE n \in DOMAIN gv /\ gv[n] = assigned[r][n]
          /\ \A n \in DOMAIN nsBefore[r] \ an :
               IF HiddenKey(n) \/ HiddenValue(nsBefore[r][n])
               THEN n \notin DOMAIN gv
               ELSE n \in DOMAIN gv /\ gv[n] = nsBefore[r][n]
          /\ DOMAIN gv \subseteq an \cup DOMAIN nsBefore[r]

\* C2 witness: a script without return has run, one of its names is hidden
\* and a name it did not assign is visible
C2_Witness ==
  \E r \in DOMAIN phase :
    /\ Returned(r) /\ ~HasReturn(script[r])
    /\ "_x" \in AssignedNames(script[r])
    /\ "a" \in DOMAIN GetVariables(ns[r])
    /\ "c" \in DOMAIN GetVariables(ns[r])

\* C3: an exit statement that is reached ends the script and its value is
\* recorded in the exit slot, wherever the statement is nested.
C3_ExitAlwaysRecorded ==
  \A r \in DOMAIN phase :
    (AllReturnsValued(script[r]) /\ reachedExit[r]) =>
      /\ afterExit[r] = 0
      /\ Returned(r) => /\ "__scribe_return__" \in DOMAIN ns[r]
                        /\ ns[r]["__scribe_return__"] = exitVal[r]

\* C4: a bare return is rewritten to raise the signal with None: no line is
\* merged into it, the script stops there, and execute returns None.
C4_BareReturn ==
  \A r \in DOMAIN phase :
    (AllReturnsBare(script[r]) /\ HasReturn(script[r])) =>
      /\ phase[r] \in {"Rewritten", "Failed", "Executed"} =>
           Len(prog[r]) = Len(NonBlankLines(script[r])) + 4
      /\ reachedExit[r] =>
           /\ afterExit[r] = 0
           /\ ~Raised(r)
           /\ Returned(r) => result[r] = PyNone

\* C5: no name of a running script resolves to a blocked builtin, so no
\* binding of the namespace ever holds one.
C5_BlockedUnresolvable ==
  \A r \in DOMAIN phase :
    \A n \in DOMAIN ns[r] :
      ~(ns[r][n].kind = "builtin" /\ ns[r][n].id \in BLOCKED_BUILTINS)

\* C6: in the namespace the script is run against, a path parameter wins over
\* everything of the same name, a helper over context objects and safe
\* builtins, a context object over safe builtins.
C6_Precedence ==
  \A r \in DOMAIN phase :
    phase[r] = "NamespaceBuilt" =>
      /\ \A n \in DOMAIN params[r] : ns[r][n] = params[r][n]
      /\ \A n \in DOMAIN helpers \ DOMAIN params[r] : ns[r][n] = helpers[n]
      /\ \A n \in FrameworkNames \ (DOMAIN helpers \cup DOMAIN params[r]) :
           ns[r][n] = FrameworkObjects[n]

\* what a request that runs alone goes through: the configurations <<pc, ns>>
\* of exec() from line i on
RECURSIVE SoloRun(_, _, _)
SoloRun(prg, i, namespace) ==
  {<<i, namespace>>} \cup
  IF i > Len(prg) THEN {}
  ELSE LET o == ExecStmt(prg, i, namespace)
       IN  IF o.st = "raised" THEN {<<i, o.ns>>} ELSE SoloRun(prg, o.pc, o.ns)

SoloStartOf(code, hlp, url_params) ==
  IF HasReturn(code)
  THEN ExecSetup(HandlerNamespace(hlp, url_params))
  ELSE WithBuiltins(HandlerNamespace(hlp, url_params))

SoloProgOf(code) ==
  IF HasReturn(code)
  THEN ParseProgram(WrapCode(TransformReturns(code)))
  ELSE ParseProgram(code)

\* the code objects and the solo runs of the concurrent requests, by script,
\* path parameters and helpers
SoloProgs == [code \in ConcScripts |-> SoloProgOf(code)]

SoloRuns ==
  [code \in ConcScripts |->
     [url_params \in ConcParamSets |->
        [hlp \in ConcHelperSets |->
           SoloRun(SoloProgs[code], 1, SoloStartOf(code, hlp, url_params))]]]

SoloProg(r) == SoloProgs[script[r]]

SoloRunOf(r) == SoloRuns[script[r]][params[r]][helpers]

\* C7: whatever the interleaving of the requests, the namespace, the exit
\* value and the rendered bindings of a request are those the request has
\* when it runs alone: no binding of another request is visible in them.
C7_Isolation ==
  \A r \in DOMAIN phase :
    /\ phase[r] = "Idle" => ns[r] = <<>>
    /\ phase[r] = "NamespaceBuilt" => ns[r] = HandlerNamespace(helpers, params[r])
    /\ phase[r] \in {"Rewritten", "Unmodified", "Failed", "ErrorProduced"} =>
         <<pc[r], ns[r]>> \in SoloRunOf(r)
    /\ Returned(r) =>
         \E cfg \in SoloRunOf(r) :
           /\ cfg[1] > Len(SoloProg(r))
           /\ ns[r] = ExecuteReturn(cfg[2]).ns
           /\ result[r] = ExecuteReturn(cfg[2]).value
    /\ phase[r] = "ExitProduced" => response[r] = result[r]
    /\ phase[r] = "BindingsProduced" =>
         /\ rendered[r] = TemplateVars(ns[r], params[r])
         /\ \A n \in DOMAIN rendered[r] :
              \/ n \in DOMAIN params[r] \cup DOMAIN helpers
              \/ n \in AssignedNames(script[r])
              \/ n \in {"session", "request", "g", "csrf", "url_for"}

\* C7 witness: two requests are in the middle of their scripts at once, one
\* has bound a name the other one has not
C7_Witness ==
  \E r, q \in DOMAIN phase :
    /\ r # q
    /\ phase[r] \in {"Rewritten", "Unmodified"} /\ pc[r] > 1
    /\ phase[q] \in {"Rewritten", "Unmodified"} /\ pc[q] > 1
    /\ \E n \in {"a", "val"} : n \in DOMAIN ns[r] /\ n \notin DOMAIN ns[q]

\* C8: when execute fails, get_variables() gives what it gave before the call.
C8_NoHalfApplied ==
  \A r \in DOMAIN phase :
    Raised(r) => GetVariables(ns[r]) = GetVariables(nsBefore[r])

\* C9 as stated: the request of a route with a script ends with the exit
\* value or with the rendered markup, never otherwise, and with the exit value
\* whenever the script reached an exit statement.
C9_TwoOutcomes ==
  \A r \in DOMAIN phase :
    script[r] # <<>> =>
      /\ ~Raised(r)
      /\ phase[r] = "BindingsProduced" => ~reachedExit[r]
      /\ phase[r] = "ExitProduced" => rendered[r] = <<>>

Transitions ==
  { <<"Idle", "NamespaceBuilt">>,
    <<"NamespaceBuilt", "Rewritten">>, <<"NamespaceBuilt", "Unmodified">>,
    <<"NamespaceBuilt", "BindingsProduced">>,
    <<"Rewritten", "Executed">>, <<"Unmodified", "Executed">>,
    <<"Rewritten", "Failed">>, <<"Unmodified", "Failed">>,
    <<"Executed", "ExitProduced">>, <<"Executed", "BindingsProduced">>,
    <<"Failed", "ErrorProduced">> }

C9_Outcomes ==
  \A r \in DOMAIN phase :
    /\ phase[r] = "Rewritten" => HasReturn(script[r])
    /\ phase[r] = "Unmodified" => (script[r] # <<>> /\ ~HasReturn(script[r]))
    /\ phase[r] = "ExitProduced" =>
         /\ result[r] # PyNone
         /\ response[r] = result[r]
         /\ rendered[r] = <<>>
         /\ reachedExit[r]
    /\ phase[r] = "BindingsProduced" =>
         /\ script[r] = <<>> \/ result[r] = PyNone
         /\ rendered[r] = TemplateVars(ns[r], params[r])
    /\ phase[r] = "ErrorProduced" =>
         /\ rendered[r] = <<>>
         /\ result[r] = NoValue

\* C9 as amended: a request goes Idle -> NamespaceBuilt; a route without
\* script is rendered at once; otherwise the request goes on to Rewritten or
\* Unmodified and from there to Executed or, when the script fails, to
\* Failed, which ends in an error response without rendering.  From Executed
\* it ends in ExitProduced (exit value handed over, markup never rendered)
\* exactly when execute returned a value other than None, and in
\* BindingsProduced (markup rendered with the bindings) otherwise.
C9_Lifecycle ==
  /\ [](C9_Outcomes)
  /\ [][\A r \in DOMAIN phase :
          phase'[r] # phase[r] =>
            /\ <<phase[r], phase'[r]>> \in Transitions
            /\ (phase[r] = "NamespaceBuilt" /\ phase'[r] = "BindingsProduced")
                 => script[r] = <<>>
            /\ (phase[r] = "Executed" /\ phase'[r] = "BindingsProduced")
                 => result[r] = PyNone
            /\ (phase[r] = "Executed" /\ phase'[r] = "ExitProduced")
                 => result[r] # PyNone]_vars

\* C9 witness: a script that reached an exit statement carrying None has
\* been rendered
C9_Witness ==
  \E r \in DOMAIN phase :
    phase[r] = "BindingsProduced" /\ reachedExit[r] /\ exitVal[r] = PyNone


\* the types of the tokens
TokenTypes(toks) == [k \in 1..Len(toks) |-> toks[k].type]

\* token i is a plain decorator or opens a script block where the route
\* grammar has no place for it: no route decorator comes before it, or its
\* route's script block or template has already begun
Misplaced(ty, i) ==
  /\ ty[i] \in {"DECORATOR", "PYTHON_BLOCK_START"}
  /\ LET rs == {j \in 1..(i - 1) : ty[j] = "ROUTE_DECORATOR"}
     IN  \/ rs = {}
         \/ \E k \in (Max(rs) + 1)..(i - 1) :
              ty[k] \in {"PYTHON_BLOCK_END", "TEMPLATE_CONTENT"}

GrammarViolation(toks) ==
  \E i \in 1..Len(toks) : Misplaced(TokenTypes(toks), i)

\* C10: whenever the token sequence has a plain decorator or a script block
\* before the first route decorator, or after a route's script block or
\* template has begun, parse() does not return a route list: it ends with
\* SyntaxError.
C10_GrammarViolationFails ==
  (pphase \in {"Tokenized", "Parsed", "Failed"} /\ tokens # <<>>
     /\ GrammarViolation(tokens))
  => /\ pphase # "Parsed"
     /\ parsed = NotReturned
     /\ pphase = "Failed" => perror.kind = "SyntaxError"

\* parse() has failed on a decorator that follows the script block of a
\* route it had begun
C10_Witness ==
  /\ pphase = "Failed"
  /\ perror.kind = "SyntaxError"
  /\ position > 1
  /\ position <= Len(tokens)
  /\ tokens[position].type = "DECORATOR"
  /\ tokens[position - 1].type = "PYTHON_BLOCK_END"
  /\ Misplaced(TokenTypes(tokens), position)


\* the number of the line that position k of the text is on
LineOf(c, k) == 1 + CountNL(SubSeq(c, 1, k - 1))

\* the positions at which the main loop of the lexer has looked for a marker
ScanPoints == {tokstart[i] : i \in 1..Len(tokstart)} \cup {lposition}

\* the opening markers the lexer has come to that no closing marker follows
UnclosedOpenings ==
  {k \in ScanPoints : IsOpen(content, k) /\ \A j \in (k + 2)..Len(content) : ~IsClose(content, j)}

\* C11 as stated: parse() ends with SyntaxError exactly when an opening marker
\* the lexer came to has no closing marker.
C11_SyntaxErrorIffUnclosed ==
  pphase \in {"Parsed", "Failed"} =>
    ((pphase = "Failed" /\ perror.kind = "SyntaxError") <=> UnclosedOpenings # {})

\* C11 as amended: when an opening marker the lexer came to has no closing
\* marker, parse() ends with a SyntaxError that carries the line of that
\* marker and returns no route list; the lexer raises in no other case (the
\* parser raises SyntaxError of its own).
C11_UnclosedFails ==
  /\ pphase # "Source" =>
       /\ UnclosedOpenings # {} =>
            /\ pphase = "Failed"
            /\ perror.kind = "SyntaxError"
            /\ perror.by = "lexer"
            /\ \E k \in UnclosedOpenings : perror.line = LineOf(content, k)
            /\ parsed = NotReturned
       /\ (pphase = "Failed" /\ perror.by = "lexer") => UnclosedOpenings # {}
  /\ pphase = "Source" => UnclosedOpenings \subseteq {lposition}

\* the lexer has failed on an unclosed block that opens after the first line,
\* with tokens already made
C11_Witness ==
  /\ pphase = "Failed"
  /\ perror.by = "lexer"
  /\ perror.line > 1
  /\ tokens # <<>>
  /\ UnclosedOpenings = {lposition}


\* C12: tokenize() terminates on every text: it returns or raises; every turn
\* of its main loop that does not raise moves the position forward; and the
\* tokens it returns end with EOF, the only EOF among them.
C12_TokenizeTerminates ==
  /\ <>(pphase \in {"Tokenized", "Failed"})
  /\ [][(pphase = "Source" /\ pphase' = "Source") => lposition' > lposition]_vars
  /\ [](pphase = "Tokenized" =>
          /\ tokens # <<>>
          /\ \A i \in 1..Len(tokens) : (tokens[i].type = "EOF") <=> (i = Len(tokens)))

\* tokenize() has returned after three turns of its loop or more
C12_Witness ==
  /\ pphase = "Tokenized"
  /\ position = 1
  /\ Cardinality({tokens[i].line_number : i \in 1..Len(tokens)}) >= 3
  /\ \E i \in 1..Len(tokens) : tokens[i].type = "TEMPLATE_CONTENT"
  /\ \E i \in 1..Len(tokens) : tokens[i].type = "DECORATOR"
  /\ \E i \in 1..Len(tokens) : tokens[i].type = "PYTHON_CODE"


\* the last position ahead of position k that holds no blank or tab (0: none)
LastNonBlankBefore(c, k) == Max({j \in 0..(k - 1) : j = 0 \/ ~IsHSpace(c[j])})

\* position k is the first non-blank position of its line
FirstOnItsLine(c, k) ==
  LastNonBlankBefore(c, k) = 0 \/ c[LastNonBlankBefore(c, k)] = "NL"

\* C13: the lexer emits a ROUTE_DECORATOR or DECORATOR token only for an "@"
\* that is the first non-blank character of its line, and an "@" that follows
\* another character on its line stays inside a TEMPLATE_CONTENT token.
C13_DecoratorOnlyAtLineStart ==
  \A i \in 1..Len(tokens) :
    /\ tokens[i].type \in {"ROUTE_DECORATOR", "DECORATOR"} =>
          FirstOnItsLine(content, tokstart[i])
    /\ tokens[i].type \in {"ROUTE_DECORATOR", "DECORATOR", "TEMPLATE_CONTENT"} =>
          \A k \in tokstart[i]..(tokstart[i] + Len(tokens[i].value) - 1) :
            (content[k] = "@" /\ ~FirstOnItsLine(content, k)) =>
               /\ tokens[i].type = "TEMPLATE_CONTENT"


\* the route annotations of the file in the order of the routes
RouteTokens == SelectSeq(tokens, LAMBDA t : t.type = "ROUTE_DECORATOR")

\* the verbs that stand between the brackets of an annotation, as written
WrittenVerbs(text) ==
  LET b == Min({k \in 1..(Len(text) + 1) : k = Len(text) + 1 \/ text[k] = "["})
      e == Min({k \in b..(Len(text) + 1) : k = Len(text) + 1 \/ text[k] = "]"})
  IN  SelectSeq(SubSeq(text, b + 1, e - 1), LAMBDA a : a \in Verbs \cup {"POST"})

UpperVerb(a) == IF a = "get" THEN "GET" ELSE IF a = "post" THEN "POST" ELSE a

\* a sequence without the later occurrences of its entries
RECURSIVE Collapse(_)
Collapse(q) ==
  IF q = <<>> THEN <<>>
  ELSE LET r == Collapse(SubSeq(q, 1, Len(q) - 1))
       IN  IF \E j \in 1..Len(r) : r[j] = q[Len(q)] THEN r ELSE Append(r, q[Len(q)])

HasMethodsArgument(text) == \E k \in 1..Len(text) : text[k] = "methods"

\* C14: the methods of every route that parse returns are not empty and are
\* the verbs quoted in methods=[...], upper-cased, duplicates collapsed, in the
\* order written, also when the list stands on several lines; [GET] when the
\* annotation has no methods argument.
C14_MethodsAsWritten ==
  parsed.returned =>
    /\ Len(parsed.routes) = Len(RouteTokens)
    /\ \A i \in 1..Len(parsed.routes) :
         LET text == RouteTokens[i].value
             written == WrittenVerbs(text)
             methods == parsed.routes[i].methods
         IN  /\ methods # <<>>
             /\ methods = IF HasMethodsArgument(text)
                          THEN Collapse([k \in 1..Len(written) |-> <<UpperVerb(written[k])>>])
                          ELSE << <<"GET">> >>


\* C15: every route that parse returns has a path that is not empty and
\* begins with "/".
C15_PathBeginsWithSlash ==
  parsed.returned =>
    \A i \in 1..Len(parsed.routes) :
      /\ parsed.routes[i].path # <<>>
      /\ Head(parsed.routes[i].path) = "/"


\* C16: path_parameters of a returned route has one entry for each placeholder
\* <name> or <type:name> of the path, from left to right, each with the name
\* and the type tag, "string" when the tag is left out; no entry for a path
\* without placeholders.
C16_ParametersWithTypeTags ==
  parsed.returned =>
    \A i \in 1..Len(parsed.routes) :
      LET found == Placeholders(parsed.routes[i].path, 1)
      IN  parsed.routes[i].path_parameters =
            [k \in 1..Len(found) |->
               [name |-> found[k].name,
                typeTag |-> IF found[k].type = <<>> THEN <<"string">>
                            ELSE found[k].type]]


\* C17: two routes whose paths differ never get the same endpoint name from
\* get_function_name, so the routes loaded into one application have pairwise
\* distinct endpoint names.
C17_UniqueEndpointNames ==
  \A i, j \in 1..Len(all_routes) :
    all_routes[i].path # all_routes[j].path =>
      GetFunctionName(all_routes[i].path) # GetFunctionName(all_routes[j].path)

\* C19: when parsing a template file of the project raises, no route is
\* registered, neither now nor later, register_routes does not run, and the
\* one thing that happens next is that the exception leaves create_app: the
\* loop does not go on to another file.
C19_ParseFailureAborts ==
  /\ [](pphase = "Failed" =>
          /\ registered = <<>>
          /\ lphase \in {"Parsing", "Aborted"}
          /\ lphase = "Aborted" => lerror = perror /\ lerror.kind = "SyntaxError")
  /\ [][pphase = "Failed" =>
          /\ lphase' = "Aborted"
          /\ lerror' = perror
          /\ registered' = <<>>
          /\ pphase' = "Failed"
          /\ fileIx' = fileIx]_vars

\* loading was aborted at the second file; the first one had a route
C19_Witness ==
  /\ lphase = "Aborted"
  /\ pphase = "Failed"
  /\ lerror.by = "lexer"
  /\ fileIx = 2
  /\ all_routes # <<>>
  /\ registered = <<>>


\* the path that stands between the first pair of quotes of an annotation
WrittenPath(text) ==
  LET q1 == Min({k \in 1..Len(text) : text[k] \in Quotes})
      q2 == Min({k \in (q1 + 1)..Len(text) : text[k] \in Quotes})
  IN  SubSeq(text, q1 + 1, q2 - 1)

\* the file is a route annotation line, a script block, a line break and
\* markup (Scenario A), and parse has returned
ScenarioA ==
  /\ pphase = "Parsed"
  /\ TokenTypes(tokens) = <<"ROUTE_DECORATOR", "PYTHON_BLOCK_START", "PYTHON_CODE",
                            "PYTHON_BLOCK_END", "TEMPLATE_CONTENT", "EOF">>
  /\ tokstart[1] = 1
  /\ content[tokstart[4] + 2] = "NL"
  /\ tokstart[4] + 2 < Len(content)

\* C18: for a Scenario A file parse returns one route with the path and the
\* methods of the annotation, the text between the markers as script and the
\* text of the lines after the closing marker as markup, without the line
\* break that ends the line of the closing marker.
C18_ScenarioAExact ==
  ScenarioA =>
    /\ Len(parsed.routes) = 1
    /\ parsed.routes[1].path = WrittenPath(tokens[1].value)
    /\ parsed.routes[1].methods =
         IF HasMethodsArgument(tokens[1].value)
         THEN Collapse([k \in 1..Len(WrittenVerbs(tokens[1].value)) |->
                          <<UpperVerb(WrittenVerbs(tokens[1].value)[k])>>])
         ELSE << <<"GET">> >>
    /\ parsed.routes[1].python_code =
         Code(SubSeq(content, tokstart[2] + 2, tokstart[4] - 1))
    /\ parsed.routes[1].template = SubSeq(content, tokstart[4] + 3, Len(content))


\* the route request r asks for is annotated with @require_auth
Guarded(r) ==
  \E k \in 1..Len(annotations[r]) :
    annotations[r][k][1] = "require_auth"

\* request r is inside the handler of its route
HandlerRuns(r) ==
  phase[r] \in {"Idle", "NamespaceBuilt", "Rewritten", "Unmodified", "Executed",
                "Failed"}

\* the login url an annotation names: the quoted url between its brackets,
\* '/login' when it names none
WrittenLoginUrl(expr) ==
  LET quotes == {k \in 1..Len(expr) : expr[k] \in {"'", "DQ"}}
  IN IF quotes = {} THEN "/login" ELSE expr[Min(quotes) + 1]

\* the login url of the route request r asks for
LoginUrl(r) ==
  WrittenLoginUrl(annotations[r][CHOOSE k \in 1..Len(annotations[r]) :
                                   annotations[r][k][1] = "require_auth"])

\* C20: whatever login_user, logout_user and requests came before, the
\* handler of a route annotated with @require_auth runs only in a request
\* whose session holds user_id; in any other request to such a route no
\* script and no markup is run, session['next_url'] becomes the requested url
\* and the response is the redirect to the login url of the route.
C20_RequireAuthGuards ==
  /\ [](\A r \in DOMAIN phase :
          /\ Guarded(r) /\ HandlerRuns(r) => "user_id" \in DOMAIN session
          /\ Guarded(r) /\ phase[r] = "Redirected" =>
                /\ response[r] = Val("redirect", LoginUrl(r))
                /\ prog[r] = <<>> /\ ns[r] = <<>> /\ rendered[r] = <<>>)
  /\ [][\A r \in DOMAIN phase :
          (Guarded(r) /\ phase[r] = "Dispatched" /\ phase'[r] # "Dispatched") =>
            IF "user_id" \in DOMAIN session
            THEN phase'[r] = "Idle" /\ session' = session
            ELSE /\ phase'[r] = "Redirected"
                 /\ DOMAIN session' = DOMAIN session \cup {"next_url"}
                 /\ session'["next_url"] = Val("str", url[r])
                 /\ response'[r] = Val("redirect", LoginUrl(r))]_vars

\* the route request r asks for names a login url of its own
NamesLoginUrl(r) ==
  \E k \in 1..Len(annotations[r]) :
    /\ annotations[r][k][1] = "require_auth"
    /\ \E q \in 1..Len(annotations[r][k]) : annotations[r][k][q] \in {"'", "DQ"}

\* C21: a request without user_id to a route annotated
\* @require_auth('/admin/login') is redirected to '/admin/login', the url the
\* annotation gives, not to the default '/login'.
C21_RedirectToWrittenUrl ==
  \A r \in DOMAIN phase :
    (phase[r] = "Redirected" /\ NamesLoginUrl(r)) =>
      /\ response[r] = Val("redirect", "/admin/login")
      /\ response[r] # Val("redirect", "/login")

\* the statement that left execute() with an exception is a call of the
\* response helper abort with an HTTP error code
AbortRaised(r) ==
  /\ phase[r] \in {"Failed", "ErrorProduced"}
  /\ pc[r] \in 1..Len(prog[r])
  /\ WellFormed(prog[r])
  /\ prog[r][pc[r]].kind = "call"
  /\ prog[r][pc[r]].e = "abort"
  /\ prog[r][pc[r]].x \in {"403", "404"}
  /\ DictGet(ns[r], "abort") = Val("function", "abort")

\* C22: a script that calls abort(code) ends the request with that HTTP
\* error code: abort(404) gives a 404 response, abort(403) a 403, not a 500.
C22_AbortKeepsCode ==
  \A r \in DOMAIN phase :
    (phase[r] = "ErrorProduced" /\ AbortRaised(r)) =>
      response[r] = Val("error", prog[r][pc[r]].x)

\* every return of the script is the first word of a function body
ReturnsOnlyInBodies(code) ==
  /\ HasReturn(code)
  /\ \A i \in 1..Len(code) :
        AtReturn(code, i) =>
          /\ i > 2 /\ code[i - 1] = "IND" /\ code[i - 2] = "NL"
          /\ i + 2 <= Len(code) /\ code[i + 1] = "SP" /\ code[i + 2] \in Literals

\* the lines of the script as written
ScriptLines(r) == SplitNL(script[r])

\* C23: a function defined in the script whose body is `return EXPR` gives
\* EXPR to its call site: the call does not end the script and sets no exit
\* value, and the statements after the call still run.
C23_ReturnInsideDef ==
  \A r \in DOMAIN phase :
    (phase[r] = "Executed" /\ ReturnsOnlyInBodies(script[r])) =>
      /\ result[r] = PyNone
      /\ ~HasReturnValue(ns[r])
      /\ \A k \in 1..Len(ScriptLines(r)) :
            /\ ScriptLines(r)[k] = <<"x", "=", "f", "(", ")">> =>
                  DictGet(ns[r], "x") = IntVal("1")
            /\ ScriptLines(r)[k] = <<"val", "=", "2">> =>
                  DictGet(ns[r], "val") = IntVal("2")

\* the events of the log that belong to the work on a pending file
Work == {"execute", "failure", "record"}

\* the step works on file f: it adds such an event to the log
WorksOn(f) ==
  /\ Len(mlog') = Len(mlog) + 1
  /\ mlog'[Len(mlog')].ev \in Work
  /\ mlog'[Len(mlog')].file = f

\* the run in progress has executed statement k of file f without error
Executed(f, k) ==
  \E e \in 1..Len(mlog) :
    mlog[e] = [run |-> mruns, ev |-> "execute", file |-> f, k |-> k]

\* C24: over any number of run_migrations calls on one database each
\* migration file is applied at most once: a file recorded in _migrations is
\* skipped by every later run, a file is recorded only after all of its
\* statements ran without error, and when a statement fails the run rolls
\* back, raises, does not record that file and applies no later file.
C24_AppliedAtMostOnce ==
  /\ [](/\ \A i, j \in 1..Len(mtable) : mtable[i] = mtable[j] => i = j
        /\ \A x \in mdone, y \in mdone :
              (x[2] = y[2] /\ x[3] = y[3]) => x[1] = y[1]
        /\ mphase = "Raised" =>
              /\ mpending = NoPending
              /\ \A x \in mdone : ~(x[1] = mruns /\ x[2] = mfiles[mix])
              /\ mfiles[mix] \notin Filenames(mtable))
  /\ [][/\ \A f \in mdir : WorksOn(f) => f \notin Filenames(mtable)
        /\ \A f \in mdir :
              (f \in Filenames(mtable') /\ f \notin Filenames(mtable)) =>
                \A k \in 1..Statements(f) : Executed(f, k)
        /\ mphase = "Raised" => mlog' = mlog]_vars

\* int() of the number that prefixes a file name
PrefixNumber(name) == ToInt(LeadingDigits(name))

\* C25: the pending migrations of a run are executed in ascending order of
\* the number that prefixes their file name, whatever the number of digits.
C25_NumericalOrder ==
  \A i, j \in 1..Len(mlog) :
    (i < j /\ mlog[i].run = mlog[j].run
           /\ mlog[i].ev \in Work /\ mlog[j].ev \in Work) =>
      PrefixNumber(mlog[i].file) <= PrefixNumber(mlog[j].file)

\* the connection names a config sets up: those under 'databases', or
\* 'default' alone for a config with the old 'database' entry only
Configured(config) ==
  IF "databases" \in DOMAIN config THEN DOMAIN config["databases"]
  ELSE IF "database" \in DOMAIN config THEN {"default"}
  ELSE {}

\* the manager answers by name only, for exactly the configured names
ByNameOnly ==
  /\ [](Built =>
          /\ DOMAIN dconns = DOMAIN dconfig["databases"]
          /\ \A n \in DOMAIN dconns : dconns[n] = Adapter(dconfig["databases"][n])
          /\ dresult.op = "getitem" =>
                IF dresult.arg \in DOMAIN dconns
                THEN dresult.outcome = "adapter" /\ dresult.value = dconns[dresult.arg]
                ELSE dresult.outcome = "KeyError" /\ dresult.names = DOMAIN dconns
          /\ dresult.op = "contains" =>
                (dresult.outcome = "True") = (dresult.arg \in DOMAIN dconns))
  /\ [][dresult'.op = "init" =>
          IF Configured(dconfig) = {} THEN dresult'.outcome = "ValueError"
          ELSE /\ DOMAIN dconns' = Configured(dconfig)
               /\ ("databases" \notin DOMAIN dconfig) =>
                     dconns' = ("default" :> Adapter(dconfig["database"]))]_vars

\* C26 as stated: connections are reached by explicit name only, for exactly
\* the configured names, and access to any public attribute of the manager
\* raises AttributeError.
C26_AnyPublicAttributeRaises ==
  /\ ByNameOnly
  /\ [](Built /\ dresult.op = "getattr" /\ ~IsPrivate(dresult.arg) =>
          dresult.outcome = "AttributeError")

\* C26: `name in db` holds and db[name] returns the adapter exactly for the
\* configured names (an old 'database' entry alone gives the one connection
\* 'default'), db[other] raises KeyError naming the connections, and access
\* to a public attribute raises AttributeError naming the connections and
\* reaches no connection, unless it is one of the methods the manager
\* defines itself (keys, values, items, get, close_all).
C26_ExplicitAccess ==
  /\ ByNameOnly
  /\ [](Built /\ dresult.op = "getattr" /\ ~IsPrivate(dresult.arg) =>
          IF dresult.arg \in ClassMethods
          THEN dresult.outcome = "attribute"
          ELSE dresult.outcome = "AttributeError" /\ dresult.names = DOMAIN dconns)

\* db.query on a manager built from the old 'database' entry
C26_Witness ==
  /\ Built
  /\ "database" \in DOMAIN dconfig
  /\ DOMAIN dconns = {"default"}
  /\ dresult = OpResult("getattr", "query", "AttributeError", "", {"default"})

\* position k of an annotation text lies inside an unclosed `(` or inside an
\* open quoted string
InsideOpen(text, k) ==
  LET scan[j \in 0..Len(text)] ==
        IF j = 0 THEN [depth |-> 0, quote |-> ""]
        ELSE LET st == scan[j - 1]
                 ch == text[j]
                 isq == ch \in Quotes /\ (j = 1 \/ text[j - 1] # "BSL")
             IN  IF isq /\ st.quote = "" THEN [st EXCEPT !.quote = ch]
                 ELSE IF isq /\ st.quote = ch THEN [st EXCEPT !.quote = ""]
                 ELSE IF st.quote # "" THEN st
                 ELSE IF ch = "(" THEN [st EXCEPT !.depth = st.depth + 1]
                 ELSE IF ch = ")" THEN [st EXCEPT !.depth = Max({0, st.depth - 1})]
                 ELSE st
  IN  scan[k - 1].quote # "" \/ scan[k - 1].depth > 0

AnnotationTokens ==
  {i \in DOMAIN tokens : tokens[i].type \in {"DECORATOR", "ROUTE_DECORATOR"}}

\* C27: an annotation token contains a line break only inside an unclosed `(`
\* or inside an open quoted string: the lines after an annotation whose
\* parentheses are closed or over-closed are not part of the token.
C27_LineBreakOnlyInsideOpen ==
  \A i \in AnnotationTokens :
    \A k \in DOMAIN tokens[i].value :
      tokens[i].value[k] = "NL" => InsideOpen(tokens[i].value, k)

\* the letters of return at atom i are part of a larger identifier
InsideIdentifier(code, i) ==
  /\ code[i] = "return"
  /\ \/ i > 1 /\ IsWord(code[i - 1])
     \/ i < Len(code) /\ IsWord(code[i + 1])

\* the script has the letters of return, and only inside larger identifiers
OnlyInsideIdentifiers(code) ==
  /\ \E i \in DOMAIN code : code[i] = "return"
  /\ \A i \in DOMAIN code : code[i] = "return" => InsideIdentifier(code, i)

\* the names the script assigns a number to, and the number of the last
\* assignment
LiteralAssignments(code) ==
  LET lines == SplitNL(code)
      words == [k \in DOMAIN lines |-> SelectSeq(Glue(lines[k]), NoWs)]
      isAssign(k) == Len(words[k]) = 3 /\ words[k][2] = "=" /\ words[k][3] \in Literals
      names == {words[k][1] : k \in {j \in DOMAIN lines : isAssign(j)}}
  IN  [n \in names |->
         IntVal(words[Max({k \in DOMAIN lines : isAssign(k) /\ words[k][1] = n})][3])]

\* C28: a script in which return occurs only as part of larger identifiers
\* (return_url, returned, no_return) is executed unmodified, produces no exit
\* value, and binds those identifiers as plain names.
C28_ReturnInsideIdentifier ==
  \A r \in DOMAIN phase :
    OnlyInsideIdentifiers(script[r]) /\ phase[r] \notin {"Idle", "NamespaceBuilt"} =>
      /\ phase[r] # "Rewritten"
      /\ prog[r] = ParseProgram(script[r])
      /\ WellFormed(prog[r])
      /\ "__ScribeReturn__" \notin DOMAIN ns[r]
      /\ "__scribe_return__" \notin DOMAIN ns[r]
      /\ ~reachedExit[r]
      /\ phase[r] \notin {"Unmodified", "Failed", "ErrorProduced"} =>
           /\ result[r] = PyNone
           /\ ~HasReturnValue(ns[r])
           /\ \A n \in DOMAIN LiteralAssignments(script[r]) :
                n \in DOMAIN ns[r] /\ ns[r][n] = LiteralAssignments(script[r])[n]

\* `no_return = 2` and `val = no_return` have run
C28_Witness ==
  /\ script[1] = <<"no_", "return", "SP", "=", "SP", "2", "NL", "val", "=", "no_", "return">>
  /\ phase[1] = "Executed"
  /\ "no_return" \in DOMAIN ns[1] /\ ns[1]["no_return"] = IntVal("2")
  /\ "val" \in DOMAIN ns[1] /\ ns[1]["val"] = IntVal("2")
  /\ result[1] = PyNone

\* the run of the latest script reached an exit statement that carries a
\* value
ReachedValuedExit(r) == reachedExit[r] /\ exitVal[r] # PyNone

\* C29: after any sequence of execute calls on one context, execute returns
\* None and has_return_value() is false whenever the latest script reached
\* no exit statement carrying a value.
C29_LatestRunOnly ==
  \A r \in DOMAIN phase :
    phase[r] = "Executed" /\ ~ReachedValuedExit(r) =>
      result[r] = PyNone /\ ~HasReturnValue(ns[r])

\* C30: when a script assigns a name that is also a path parameter of the
\* route, the bindings handed to the renderer carry the value the script gave
\* it last, not the URL value.
C30_ScriptValueRendered ==
  \A r \in DOMAIN phase :
    phase[r] = "BindingsProduced" =>
      \A n \in DOMAIN assigned[r] \cap DOMAIN params[r] :
        n \in DOMAIN rendered[r] /\ rendered[r][n] = assigned[r][n]

====
